---- MODULE Spec2Model ----
(***************************************************************************)
(* Model of the interrupt-controller and event-delivery core of the pru    *)
(* package (github.com/aamcrae/pru): PRU.Open / PRU.Close / signalReader   *)
(* (unnamed/part_006), Event (unnamed/part_007, event.go), Config          *)
(* (config.go).                                                            *)
(*                                                                         *)
(* Spec     one open handle whose configuration routes system event 16     *)
(*          through channel 3 to host interrupt 3 (device 1): the reader   *)
(*          task, the handler dispatchers, a waiting task and the task     *)
(*          that manages handlers and closes the handle, interleaved       *)
(*          statement by statement.                                        *)
(* LifeSpec the open/close life cycle of the singleton, Open and Close     *)
(*          as whole calls.                                                *)
(* FanSpec  delivery on a handle that stays open (FairFanSpec: fair).      *)
(* FairSpec Spec under fair scheduling of the goroutines.                  *)
(* ApiSpec  the Config builder, Open with the built Config, ClearEvent.    *)
(* UnitSpec Unit.RunAt / LoadAt / LoadAndRunAt (unit.go).                  *)
(* RouteSpec, TaskSpec  Open with several configurations, then the reader  *)
(*          and the calls on the handle's events.                          *)
(* RaceSpec two tasks calling SetHandler / ClearHandler on one Event.      *)
(* RamSpec  the ramIO of a RAM block (ram.go).                             *)
(***************************************************************************)
EXTENDS Integers, Sequences, FiniteSets, TLC

(***************************************************************************)
(* Bounds of the model.                                                    *)
(***************************************************************************)
\* Capacity of an event queue in the model (the code allocates 50).
QueueCap == 2
\* Number of times the hardware raises a system event.
MaxRaise == 2
\* Number of SetHandler calls, hence of dispatcher tasks ever started.
MaxHandlers == 2

(***************************************************************************)
(* Program constants.                                                      *)
(***************************************************************************)
nEvents == 64
nChannels == 10
nHostInts == 10
nUnits == 2
nSignals == nHostInts - 2

\* hostInt2Signal - convert host interrupt index to signal index
hostInt2Signal(hi) == hi - 2

\* signal2HostInt - convert signal index to host interrupt number
signal2HostInt(sig) == sig + 2

(***************************************************************************)
(* The configuration applied to the handle of Spec: Event2Channel(16, 3),  *)
(* Channel2Interrupt(3, 3).  Open gives every mapped system event an Event *)
(* (p.events, the bits of p.evMask), and starts one reader per host        *)
(* interrupt device with the device's event mask p.sigMask[i] and host     *)
(* interrupt signal2HostInt(i).                                            *)
(***************************************************************************)
SpecEvents == {16}
SpecHostInt == signal2HostInt(hostInt2Signal(3))

\* The tasks that call Wait / WaitTimeout.
Waiters == {1}
Handlers == 1..MaxHandlers

VARIABLES
  \* ---- the program's state
  pru,               \* the package singleton: 0 is nil, otherwise the handle
  handlerRegistered, \* Event.handlerRegistered, per event
  evChan,            \* Event.evChan, per event: [q: queued items, closed]
  stopChan,          \* Event.stopChan, per event: [gen: 0 is nil, closed]
  sigFile,           \* the host-interrupt device file of p.signals is open
  mapped,            \* p.mem is mapped (false after unix.Munmap)
  \* ---- interrupt controller and device
  ger,               \* global enable register
  esr,               \* set of enabled system events (ESR/ECR)
  srsr,              \* set of pending system events (SRSR/SECR)
  hien,              \* set of enabled host interrupts (HIEISR/HIDISR)
  devReady,          \* the device has an unread 4-byte interrupt record
  \* ---- tasks
  mgr,               \* the task calling SetHandler, ClearHandler and Close
  disp,              \* one dispatcher goroutine per SetHandler call
  waiter,            \* the tasks calling Wait and WaitTimeout
  wres,              \* what each waiting task's last call returned
  reader,            \* the signalReader goroutine of the device
  panicked,          \* a goroutine panicked or faulted: the process is gone
  \* ---- history
  raised,            \* number of system events raised so far
  nextN,             \* identity given to the next notification enqueued
  nextH,             \* identity given to the next SetHandler call
  curH,              \* per event, the handler SetHandler last installed
  cleared,           \* handlers whose ClearHandler has returned
  stale,             \* [n, h]: notification n was queued when ClearHandler
                     \* removed handler h
  waitGot,           \* notifications received by Wait / WaitTimeout calls
  cbLog,             \* the callback invocations, in order: [h, n]
  dropped,           \* notifications the reader dropped on a full queue
  closeDone,         \* PRU.Close has returned
  hAtClose,          \* number of SetHandler calls made before Close returned
  \* ---- life cycle (LifeSpec)
  life               \* [open attempts and their results]

vars == << pru, handlerRegistered, evChan, stopChan, sigFile, mapped,
           ger, esr, srsr, hien, devReady,
           mgr, disp, waiter, wres, reader, panicked,
           raised, nextN, nextH, curH, cleared, stale, waitGot, cbLog,
           dropped, closeDone, hAtClose, life >>

progVars == << pru, handlerRegistered, evChan, stopChan, sigFile, mapped >>
hwVars == << ger, esr, srsr, hien, devReady >>
histVars == << raised, nextN, nextH, curH, cleared, stale, waitGot, cbLog,
               dropped, closeDone, hAtClose >>


(***************************************************************************)
(* Helpers.                                                                *)
(***************************************************************************)
Max(S) == CHOOSE x \in S : \A y \in S : y <= x
Min(S) == CHOOSE x \in S : \A y \in S : x <= y
Range(q) == { q[i] : i \in 1..Len(q) }

\* A receive on a Go channel can proceed when an item is buffered or the
\* channel is closed; a closed, drained channel yields the zero value.
CanRecv(e) == evChan[e].q # << >> \/ evChan[e].closed
RecvRest(e) == IF evChan[e].q # << >> THEN Tail(evChan[e].q) ELSE << >>

\* The system events that have an Event: the non-nil entries of p.events,
\* which are the bits of p.evMask.
Configured == DOMAIN evChan

NoResult == "none"

(***************************************************************************)
(* Init: the state Open leaves for the configuration of Spec.  Open sets   *)
(* the enables (part_006:200-221), creates one Event with an empty queue   *)
(* per mapped system event (part_006:163-166), opens the device of host    *)
(* interrupt 3 and starts its reader (part_006:182-192).                   *)
(***************************************************************************)
Init ==
  /\ pru = 1
  /\ handlerRegistered = [e \in SpecEvents |-> FALSE]
  /\ evChan = [e \in SpecEvents |-> [q |-> << >>, closed |-> FALSE]]
  /\ stopChan = [e \in SpecEvents |-> [gen |-> 0, closed |-> FALSE]]
  /\ sigFile = TRUE
  /\ mapped = TRUE
  /\ ger = 1
  /\ esr = SpecEvents
  /\ srsr = {}
  /\ hien = {SpecHostInt}
  /\ devReady = FALSE
  /\ mgr = [pc |-> "idle", ev |-> 0, ret |-> "idle"]
  /\ disp = [h \in Handlers |-> [pc |-> "none", ev |-> 0]]
  /\ waiter = [w \in Waiters |-> [pc |-> "idle", ev |-> 0]]
  /\ wres = [w \in Waiters |-> NoResult]
  /\ reader = [pc |-> "read", events |-> {}, mask |-> SpecEvents,
               hi |-> SpecHostInt]
  /\ panicked = FALSE
  /\ raised = 0
  /\ nextN = 1
  /\ nextH = 1
  /\ curH = [e \in SpecEvents |-> 0]
  /\ cleared = {}
  /\ stale = {}
  /\ waitGot = {}
  /\ cbLog = << >>
  /\ dropped = {}
  /\ closeDone = FALSE
  /\ hAtClose = 0
  /\ life = [res |-> "none"]

(***************************************************************************)
(* The hardware and the kernel driver.                                     *)
(***************************************************************************)
\* A system event becomes pending: PRU.SendEvent writes its bit to SRSR,
\* or a PRU core raises it.
RaiseUpTo(e, max) ==
  /\ ~panicked
  /\ raised < max
  /\ mapped
  /\ srsr' = srsr \cup {e}
  /\ raised' = raised + 1
  /\ UNCHANGED << progVars, ger, esr, hien, devReady, mgr, disp, waiter, wres,
                  reader, panicked, nextN, nextH, curH, cleared, stale,
                  waitGot, cbLog, dropped, closeDone, hAtClose, life >>

RaiseEvent(e) == RaiseUpTo(e, MaxRaise)

\* An enabled pending event of the device's host interrupt fires it: the
\* kernel driver disables the host interrupt and makes one record readable.
Interrupt ==
  /\ ~panicked
  /\ ger = 1
  /\ reader.hi \in hien
  /\ (srsr \cap esr) \cap reader.mask # {}
  /\ ~devReady
  /\ devReady' = TRUE
  /\ hien' = hien \ {reader.hi}
  /\ UNCHANGED << progVars, ger, esr, srsr, mgr, disp, waiter, wres, reader,
                  panicked, histVars, life >>

(***************************************************************************)
(* PRU.signalReader(hi, mask, f)                                           *)
(***************************************************************************)
\* Any access to p.mem after unix.Munmap faults and ends the process.
Fault == /\ panicked' = TRUE
         /\ UNCHANGED << progVars, hwVars, mgr, disp, waiter, wres, reader,
                         histVars, life >>

\* n, err := f.Read(b) returns a 4-byte record.
ReaderRead ==
  /\ ~panicked
  /\ reader.pc = "read"
  /\ sigFile
  /\ devReady
  /\ devReady' = FALSE
  /\ reader' = [reader EXCEPT !.pc = "pend"]
  /\ UNCHANGED << progVars, ger, esr, srsr, hien, mgr, disp, waiter, wres,
                  panicked, histVars, life >>

\* f.Read fails once the file has been closed: the reader returns.
ReaderReadErr ==
  /\ ~panicked
  /\ reader.pc = "read"
  /\ ~sigFile
  /\ reader' = [reader EXCEPT !.pc = "exit"]
  /\ UNCHANGED << progVars, hwVars, mgr, disp, waiter, wres, panicked,
                  histVars, life >>

\* Variant that takes every pending system event.
PendingAll(mask, sr) == sr

\* Variant that finds no pending system event.
PendingNone(mask, sr) == {}

\* mask & p.rd64(rSRSR0)
PendingOf(mask, sr) == mask \cap sr

\* events := mask & p.rd64(rSRSR0)
ReaderPending ==
  /\ ~panicked
  /\ reader.pc = "pend"
  /\ IF ~mapped THEN Fault
     ELSE /\ reader' = [reader EXCEPT !.pc = "clr",
                                        !.events = PendingOf(reader.mask, srsr)]
          /\ UNCHANGED << progVars, hwVars, mgr, disp, waiter, wres, panicked,
                          histVars, life >>

\* p.wr64(rSECR0, events)
ReaderClearEvents ==
  /\ ~panicked
  /\ reader.pc = "clr"
  /\ IF ~mapped THEN Fault
     ELSE /\ srsr' = srsr \ reader.events
          /\ reader' = [reader EXCEPT !.pc = "en"]
          /\ UNCHANGED << progVars, ger, esr, hien, devReady, mgr, disp,
                          waiter, wres, panicked, histVars, life >>

\* p.wr(rHIEISR, uint32(hi)), then the fan-out loop is entered.
ReaderEnable ==
  /\ ~panicked
  /\ reader.pc = "en"
  /\ IF ~mapped THEN Fault
     ELSE /\ hien' = hien \cup {reader.hi}
          /\ reader' = [reader EXCEPT
                          !.pc = IF reader.events = {} THEN "read" ELSE "send"]
          /\ UNCHANGED << progVars, ger, esr, srsr, devReady, mgr, disp,
                          waiter, wres, panicked, histVars, life >>

\* Variant that scans the mask from its lowest bit.
NextEventLowest(events) == Min(events)

\* fs := 63 - bits.LeadingZeros64(events): the highest event of the mask.
NextEvent(events) == Max(events)

\* Variant of a queue without a capacity.
HasRoomAlways(q) == TRUE

\* The send case of the select can proceed: the buffer of the channel
\* (make(chan bool, 50), QueueCap in the model) is not full.
HasRoom(q) == Len(q) < QueueCap

\* Variant that forgets the other events once one has been signalled.
RestNone(events, fs) == {}

\* events &^= 1 << uint(fs)
RestAfter(events, fs) == events \ {fs}

\* select { case p.events[fs].evChan <- true: default: }.  A send on a closed
\* channel panics, also inside a select with a default branch.
ReaderSend ==
  /\ ~panicked
  /\ reader.pc = "send"
  /\ LET fs == NextEvent(reader.events)
         rest == RestAfter(reader.events, fs)
         nxt == [reader EXCEPT !.pc = IF rest = {} THEN "read" ELSE "send",
                               !.events = rest]
     IN  IF evChan[fs].closed
         THEN /\ panicked' = TRUE
              /\ UNCHANGED << progVars, hwVars, mgr, disp, waiter, wres,
                              reader, histVars, life >>
         ELSE /\ reader' = nxt
              /\ nextN' = nextN + 1
              /\ IF HasRoom(evChan[fs].q)
                 THEN /\ evChan' = [evChan EXCEPT
                                      ![fs].q = Append(evChan[fs].q, nextN)]
                      /\ UNCHANGED dropped
                 ELSE /\ dropped' = dropped \cup {nextN}
                      /\ UNCHANGED evChan
              /\ UNCHANGED << pru, handlerRegistered, stopChan, sigFile,
                              mapped, hwVars, mgr, disp, waiter, wres,
                              panicked, raised, nextH, curH, cleared, stale,
                              waitGot, cbLog, closeDone, hAtClose, life >>


(***************************************************************************)
(* Event.Wait and Event.WaitTimeout, called by the waiting tasks.          *)
(***************************************************************************)
\* Variant of the guard that never rejects a call.
WaitGuardOff(e) == FALSE

\* if e.handlerRegistered { return error }
WaitGuard(e) == handlerRegistered[e]

UsageError == "err"

\* Wait(): the call up to its blocking receive.
WaitCall(w, e) ==
  /\ ~panicked
  /\ waiter[w].pc = "idle"
  /\ IF WaitGuard(e)
     THEN /\ wres' = [wres EXCEPT ![w] = UsageError]
          /\ UNCHANGED waiter
     ELSE /\ waiter' = [waiter EXCEPT ![w] = [pc |-> "recv", ev |-> e]]
          /\ wres' = [wres EXCEPT ![w] = NoResult]
  /\ UNCHANGED << progVars, hwVars, mgr, disp, reader, panicked, histVars,
                  life >>

\* <-e.evChan; return nil
WaitRecv(w) ==
  /\ ~panicked
  /\ waiter[w].pc = "recv"
  /\ LET e == waiter[w].ev
     IN  /\ CanRecv(e)
         /\ wres' = [wres EXCEPT ![w] = "ok"]
         /\ waitGot' = waitGot \cup (Range(evChan[e].q) \ Range(RecvRest(e)))
         /\ evChan' = [evChan EXCEPT ![e].q = RecvRest(e)]
  /\ waiter' = [waiter EXCEPT ![w].pc = "idle"]
  /\ UNCHANGED << pru, handlerRegistered, stopChan, sigFile, mapped, hwVars,
                  mgr, disp, reader, panicked, raised, nextN, nextH, curH,
                  cleared, stale, cbLog, dropped, closeDone, hAtClose, life >>

\* WaitTimeout(tout): the call up to its select.
WaitTimeoutCall(w, e) ==
  /\ ~panicked
  /\ waiter[w].pc = "idle"
  /\ IF WaitGuard(e)
     THEN /\ wres' = [wres EXCEPT ![w] = UsageError]
          /\ UNCHANGED waiter
     ELSE /\ waiter' = [waiter EXCEPT ![w] = [pc |-> "sel", ev |-> e]]
          /\ wres' = [wres EXCEPT ![w] = NoResult]
  /\ UNCHANGED << progVars, hwVars, mgr, disp, reader, panicked, histVars,
                  life >>

\* case <-e.evChan: return true, nil
WaitTimeoutRecv(w) ==
  /\ ~panicked
  /\ waiter[w].pc = "sel"
  /\ LET e == waiter[w].ev
     IN  /\ CanRecv(e)
         /\ wres' = [wres EXCEPT ![w] = "ok"]
         /\ waitGot' = waitGot \cup (Range(evChan[e].q) \ Range(RecvRest(e)))
         /\ evChan' = [evChan EXCEPT ![e].q = RecvRest(e)]
  /\ waiter' = [waiter EXCEPT ![w].pc = "idle"]
  /\ UNCHANGED << pru, handlerRegistered, stopChan, sigFile, mapped, hwVars,
                  mgr, disp, reader, panicked, raised, nextN, nextH, curH,
                  cleared, stale, cbLog, dropped, closeDone, hAtClose, life >>

\* case <-ticker.C: return false, nil.  The ticker may fire at any time.
WaitTimeoutExpire(w) ==
  /\ ~panicked
  /\ waiter[w].pc = "sel"
  /\ wres' = [wres EXCEPT ![w] = "timeout"]
  /\ waiter' = [waiter EXCEPT ![w].pc = "idle"]
  /\ UNCHANGED << progVars, hwVars, mgr, disp, reader, panicked, histVars,
                  life >>

(***************************************************************************)
(* Event.dispatcher(f), one goroutine per SetHandler call.                 *)
(***************************************************************************)
\* Variant that takes the newest item of the queue.
TakeNewest(q) == Len(q)

\* The item a receive takes from the queue: the oldest.
TakeIndex(q) == 1

RemoveAt(q, i) == [j \in 1..(Len(q) - 1) |-> IF j < i THEN q[j] ELSE q[j + 1]]

\* case v := <-e.evChan: if v { f() }: the callback is entered.
DispTake(h) ==
  /\ ~panicked
  /\ disp[h].pc = "select"
  /\ LET e == disp[h].ev
         q == evChan[e].q
     IN  /\ q # << >>
         /\ evChan' = [evChan EXCEPT ![e].q = RemoveAt(q, TakeIndex(q))]
         /\ disp' = [disp EXCEPT ![h] = [pc |-> "in_f", ev |-> e]]
         /\ cbLog' = Append(cbLog, [h |-> h, n |-> q[TakeIndex(q)]])
  /\ UNCHANGED << pru, handlerRegistered, stopChan, sigFile, mapped, hwVars,
                  mgr, waiter, wres, reader, panicked, raised, nextN, nextH,
                  curH, cleared, stale, waitGot, dropped, closeDone, hAtClose,
                  life >>

\* f() returns: back to the select.
DispReturn(h) ==
  /\ ~panicked
  /\ disp[h].pc = "in_f"
  /\ disp' = [disp EXCEPT ![h].pc = "select"]
  /\ UNCHANGED << progVars, hwVars, mgr, waiter, wres, reader, panicked,
                  histVars, life >>

\* case v := <-e.evChan on a closed, drained queue: v is false, return.
DispClosed(h) ==
  /\ ~panicked
  /\ disp[h].pc = "select"
  /\ evChan[disp[h].ev].q = << >>
  /\ evChan[disp[h].ev].closed
  /\ disp' = [disp EXCEPT ![h].pc = "dead"]
  /\ UNCHANGED << progVars, hwVars, mgr, waiter, wres, reader, panicked,
                  histVars, life >>


(***************************************************************************)
(* Event.SetHandler, Event.ClearHandler and PRU.Close, called by the       *)
(* managing task.  mgr.ret is where ClearHandler returns to: "idle" (a     *)
(* direct call), "sh_set" (from SetHandler) or "cl_chan" (from Close).     *)
(***************************************************************************)
\* Variant of SetHandler that never clears the handler in place.
ClearFirstNever(e) == FALSE

\* Variant of ClearHandler that returns without the stop handshake.
NeedsStopNever(e) == FALSE

\* Variant of ClearHandler that starts the stop handshake in any case.
NeedsStopAlways(e) == TRUE

\* Variant of ClearHandler that drains the event queue.
QueueDrained(q) == << >>

\* SetHandler: if e.handlerRegistered { e.ClearHandler() }
ClearFirst(e) == handlerRegistered[e]

\* ClearHandler: if e.handlerRegistered { ... }
NeedsStop(e) == handlerRegistered[e]

\* What ClearHandler leaves of the event queue: it does not touch it.
QueueAfterClear(q) == q

\* SetHandler(f) is called.
SetHandlerCall(e) ==
  /\ ~panicked
  /\ mgr.pc = "idle"
  /\ nextH <= MaxHandlers
  /\ mgr' = IF ClearFirst(e)
            THEN [pc |-> "ch_check", ev |-> e, ret |-> "sh_set"]
            ELSE [pc |-> "sh_set", ev |-> e, ret |-> "idle"]
  /\ UNCHANGED << progVars, hwVars, disp, waiter, wres, reader, panicked,
                  histVars, life >>

\* ClearHandler() is called.
ClearHandlerCall(e) ==
  /\ ~panicked
  /\ mgr.pc = "idle"
  /\ mgr' = [pc |-> "ch_check", ev |-> e, ret |-> "idle"]
  /\ UNCHANGED << progVars, hwVars, disp, waiter, wres, reader, panicked,
                  histVars, life >>

\* ClearHandler returns: the history notes the handler it was called for.
ClearReturns(e) == cleared' = cleared \cup ({curH[e]} \ {0})

\* if e.handlerRegistered { c := make(chan bool) ... } else return
ClearCheck ==
  /\ ~panicked
  /\ mgr.pc = "ch_check"
  /\ IF NeedsStop(mgr.ev)
     THEN /\ mgr' = [mgr EXCEPT !.pc = "ch_send"]
          /\ UNCHANGED cleared
     ELSE /\ mgr' = [mgr EXCEPT !.pc = mgr.ret]
          /\ ClearReturns(mgr.ev)
  /\ UNCHANGED << progVars, hwVars, disp, waiter, wres, reader, panicked,
                  raised, nextN, nextH, curH, stale, waitGot, cbLog, dropped,
                  closeDone, hAtClose, life >>

\* e.stopChan <- c, received by the dispatcher's case c := <-e.stopChan.
\* The channel is unbuffered: sender and receiver move together.
ClearSendStop(h) ==
  /\ ~panicked
  /\ mgr.pc = "ch_send"
  /\ stopChan[mgr.ev].gen # 0
  /\ ~stopChan[mgr.ev].closed
  /\ disp[h].pc = "select"
  /\ disp[h].ev = mgr.ev
  /\ mgr' = [mgr EXCEPT !.pc = "ch_wait"]
  /\ disp' = [disp EXCEPT ![h].pc = "ack"]
  /\ UNCHANGED << progVars, hwVars, waiter, wres, reader, panicked, histVars,
                  life >>

\* c <- true in the dispatcher, which then returns, received by <-c.
ClearRecvAck(h) ==
  /\ ~panicked
  /\ mgr.pc = "ch_wait"
  /\ disp[h].pc = "ack"
  /\ disp[h].ev = mgr.ev
  /\ mgr' = [mgr EXCEPT !.pc = "ch_close"]
  /\ disp' = [disp EXCEPT ![h].pc = "dead"]
  /\ UNCHANGED << progVars, hwVars, waiter, wres, reader, panicked, histVars,
                  life >>

\* close(e.stopChan)
ClearCloseStop ==
  /\ ~panicked
  /\ mgr.pc = "ch_close"
  /\ stopChan' = [stopChan EXCEPT ![mgr.ev].closed = TRUE]
  /\ mgr' = [mgr EXCEPT !.pc = "ch_flag"]
  /\ UNCHANGED << pru, handlerRegistered, evChan, sigFile, mapped, hwVars,
                  disp, waiter, wres, reader, panicked, histVars, life >>

\* e.handlerRegistered = false; ClearHandler returns.
ClearFlag ==
  /\ ~panicked
  /\ mgr.pc = "ch_flag"
  /\ handlerRegistered' = [handlerRegistered EXCEPT ![mgr.ev] = FALSE]
  /\ evChan' = [evChan EXCEPT ![mgr.ev].q = QueueAfterClear(evChan[mgr.ev].q)]
  /\ mgr' = [mgr EXCEPT !.pc = mgr.ret]
  /\ ClearReturns(mgr.ev)
  /\ stale' = stale \cup { [n |-> x, h |-> curH[mgr.ev]] :
                                x \in Range(evChan[mgr.ev].q) }
  /\ UNCHANGED << pru, stopChan, sigFile, mapped, hwVars, disp, waiter, wres,
                  reader, panicked, raised, nextN, nextH, curH, waitGot, cbLog,
                  dropped, closeDone, hAtClose, life >>

\* e.handlerRegistered = true
SetFlag ==
  /\ ~panicked
  /\ mgr.pc = "sh_set"
  /\ handlerRegistered' = [handlerRegistered EXCEPT ![mgr.ev] = TRUE]
  /\ mgr' = [mgr EXCEPT !.pc = "sh_make"]
  /\ UNCHANGED << pru, evChan, stopChan, sigFile, mapped, hwVars, disp,
                  waiter, wres, reader, panicked, histVars, life >>

\* e.stopChan = make(chan chan bool)
SetMakeStop ==
  /\ ~panicked
  /\ mgr.pc = "sh_make"
  /\ stopChan' = [stopChan EXCEPT ![mgr.ev] = [gen |-> nextH, closed |-> FALSE]]
  /\ mgr' = [mgr EXCEPT !.pc = "sh_go"]
  /\ UNCHANGED << pru, handlerRegistered, evChan, sigFile, mapped, hwVars,
                  disp, waiter, wres, reader, panicked, histVars, life >>

\* go e.dispatcher(f); SetHandler returns.
SetGo ==
  /\ ~panicked
  /\ mgr.pc = "sh_go"
  /\ disp' = [disp EXCEPT ![nextH] = [pc |-> "select", ev |-> mgr.ev]]
  /\ curH' = [curH EXCEPT ![mgr.ev] = nextH]
  /\ nextH' = nextH + 1
  /\ mgr' = [pc |-> "idle", ev |-> 0, ret |-> "idle"]
  /\ UNCHANGED << progVars, hwVars, waiter, wres, reader, panicked, raised,
                  nextN, cleared, stale, waitGot, cbLog, dropped, closeDone,
                  hAtClose, life >>

\* PRU.Close is called: the units are reset, then p.wr(rGER, 0);
\* p.wr64(rESR0, p.rd64(rESR0) &^ p.evMask); p.wr64(rSECR0, p.evMask);
\* p.wr(rGER, 1); pru = nil.
CloseCall ==
  /\ ~panicked
  /\ mgr.pc = "idle"
  /\ pru # 0
  /\ ger' = 1
  /\ esr' = esr \ Configured
  /\ srsr' = srsr \ Configured
  /\ pru' = 0
  /\ mgr' = [pc |-> "cl_sig", ev |-> 0, ret |-> "idle"]
  /\ UNCHANGED << handlerRegistered, evChan, stopChan, sigFile, mapped, hien,
                  devReady, disp, waiter, wres, reader, panicked, histVars,
                  life >>

\* for _, s := range p.signals { s.Close() }
CloseSignals ==
  /\ ~panicked
  /\ mgr.pc = "cl_sig"
  /\ sigFile' = FALSE
  /\ mgr' = [pc |-> "cl_ev", ev |-> Min(Configured), ret |-> "idle"]
  /\ UNCHANGED << pru, handlerRegistered, evChan, stopChan, mapped, hwVars,
                  disp, waiter, wres, reader, panicked, histVars, life >>

\* for _, e := range p.events { if e != nil { e.ClearHandler() ...
CloseEvent ==
  /\ ~panicked
  /\ mgr.pc = "cl_ev"
  /\ mgr' = [mgr EXCEPT !.pc = "ch_check", !.ret = "cl_chan"]
  /\ UNCHANGED << progVars, hwVars, disp, waiter, wres, reader, panicked,
                  histVars, life >>

\* ... close(e.evChan) } }, then on to the next event of p.events.
CloseChan ==
  /\ ~panicked
  /\ mgr.pc = "cl_chan"
  /\ LET e == mgr.ev
         later == { x \in Configured : x > e }
     IN  IF evChan[e].closed
         THEN /\ panicked' = TRUE
              /\ UNCHANGED << evChan, mgr >>
         ELSE /\ evChan' = [evChan EXCEPT ![e].closed = TRUE]
              /\ mgr' = IF later = {}
                        THEN [pc |-> "cl_unmap", ev |-> 0, ret |-> "idle"]
                        ELSE [pc |-> "cl_ev", ev |-> Min(later), ret |-> "idle"]
              /\ UNCHANGED panicked
  /\ UNCHANGED << pru, handlerRegistered, stopChan, sigFile, mapped, hwVars,
                  disp, waiter, wres, reader, histVars, life >>

\* unix.Munmap(p.mem); p.mmapFile.Close(); PRU.Close returns.
CloseUnmap ==
  /\ ~panicked
  /\ mgr.pc = "cl_unmap"
  /\ mapped' = FALSE
  /\ closeDone' = TRUE
  /\ hAtClose' = nextH - 1
  /\ mgr' = [pc |-> "idle", ev |-> 0, ret |-> "idle"]
  /\ UNCHANGED << pru, handlerRegistered, evChan, stopChan, sigFile, hwVars,
                  disp, waiter, wres, reader, panicked, raised, nextN, nextH,
                  curH, cleared, stale, waitGot, cbLog, dropped, life >>

(***************************************************************************)
(* The specification of one open handle.                                   *)
(***************************************************************************)
HardwareStep == (\E e \in Configured : RaiseEvent(e)) \/ Interrupt

ReaderStep ==
  \/ ReaderRead
  \/ ReaderReadErr
  \/ ReaderPending
  \/ ReaderClearEvents
  \/ ReaderEnable
  \/ ReaderSend

WaiterStep(w) ==
  \/ \E e \in Configured : WaitCall(w, e)
  \/ WaitRecv(w)
  \/ \E e \in Configured : WaitTimeoutCall(w, e)
  \/ WaitTimeoutRecv(w)
  \/ WaitTimeoutExpire(w)

DispStep(h) == DispTake(h) \/ DispReturn(h) \/ DispClosed(h)

MgrStep ==
  \/ \E e \in Configured : SetHandlerCall(e)
  \/ \E e \in Configured : ClearHandlerCall(e)
  \/ ClearCheck
  \/ \E h \in Handlers : ClearSendStop(h)
  \/ \E h \in Handlers : ClearRecvAck(h)
  \/ ClearCloseStop
  \/ ClearFlag
  \/ SetFlag
  \/ SetMakeStop
  \/ SetGo
  \/ CloseCall
  \/ CloseSignals
  \/ CloseEvent
  \/ CloseChan
  \/ CloseUnmap

\* Once a goroutine has panicked the process is gone: every action is
\* guarded by ~panicked.
Next ==
  \/ HardwareStep
  \/ ReaderStep
  \/ \E w \in Waiters : WaiterStep(w)
  \/ \E h \in Handlers : DispStep(h)
  \/ MgrStep

Spec == Init /\ [][Next]_vars

\* The steps by which a call of the managing task goes on once made.
MgrRun ==
  \/ ClearCheck
  \/ \E h \in Handlers : ClearSendStop(h)
  \/ \E h \in Handlers : ClearRecvAck(h)
  \/ ClearCloseStop
  \/ ClearFlag
  \/ SetFlag
  \/ SetMakeStop
  \/ SetGo
  \/ CloseSignals
  \/ CloseEvent
  \/ CloseChan
  \/ CloseUnmap

\* The Go scheduler runs every runnable goroutine: the managing task inside a
\* call, the reader, and the dispatchers, whose callbacks return.  Nothing
\* obliges the program to make a call or the hardware to raise an event.
FairSpec ==
  /\ Spec
  /\ WF_vars(MgrRun)
  /\ WF_vars(ReaderStep)
  /\ \A h \in Handlers : WF_vars(DispStep(h))

(***************************************************************************)
(* FanSpec: delivery on an open handle that stays open.  The configuration *)
(* maps events 16 and 17 to channel 3 -> host interrupt 3 (device 1) and   *)
(* event 18 to channel 1 -> host interrupt 1, which has no device and no   *)
(* reader.  Event 16 has a handler, installed by SetHandler before the     *)
(* first event; a task waits on the events.  FairFanSpec adds the fair     *)
(* scheduling of the reader and of the waiting task's receive.             *)
(***************************************************************************)
\* Number of times the hardware raises a system event under FanSpec.
MaxFanRaise == 4

FanEvents == {16, 17, 18}
FanMask == {16, 17}
FanHandled == {16}

FanInit ==
  /\ pru = 1
  /\ handlerRegistered = [e \in FanEvents |-> e \in FanHandled]
  /\ evChan = [e \in FanEvents |-> [q |-> << >>, closed |-> FALSE]]
  /\ stopChan = [e \in FanEvents |->
                   [gen |-> IF e \in FanHandled THEN 1 ELSE 0,
                    closed |-> FALSE]]
  /\ sigFile = TRUE
  /\ mapped = TRUE
  /\ ger = 1
  /\ esr = FanEvents
  /\ srsr = {}
  /\ hien = {1, SpecHostInt}
  /\ devReady = FALSE
  /\ mgr = [pc |-> "idle", ev |-> 0, ret |-> "idle"]
  /\ disp = [h \in Handlers |->
               IF h = 1 THEN [pc |-> "select", ev |-> Min(FanHandled)]
               ELSE [pc |-> "none", ev |-> 0]]
  /\ waiter = [w \in Waiters |-> [pc |-> "idle", ev |-> 0]]
  /\ wres = [w \in Waiters |-> NoResult]
  /\ reader = [pc |-> "read", events |-> {}, mask |-> FanMask,
               hi |-> SpecHostInt]
  /\ panicked = FALSE
  /\ raised = 0
  /\ nextN = 1
  /\ nextH = 2
  /\ curH = [e \in FanEvents |-> IF e \in FanHandled THEN 1 ELSE 0]
  /\ cleared = {}
  /\ stale = {}
  /\ waitGot = {}
  /\ cbLog = << >>
  /\ dropped = {}
  /\ closeDone = FALSE
  /\ hAtClose = 0
  /\ life = [res |-> "none"]

FanRaise(e) == RaiseUpTo(e, MaxFanRaise)

\* The steps of the reader while its device file stays open.
FanReaderStep ==
  \/ ReaderRead
  \/ ReaderPending
  \/ ReaderClearEvents
  \/ ReaderEnable
  \/ ReaderSend

FanNext ==
  \/ \E e \in Configured : FanRaise(e)
  \/ Interrupt
  \/ FanReaderStep
  \/ \E w \in Waiters : WaiterStep(w)
  \/ \E h \in Handlers : DispTake(h)
  \/ \E h \in Handlers : DispReturn(h)

FanSpec == FanInit /\ [][FanNext]_vars

\* The Go scheduler runs every runnable goroutine: the reader, and the
\* waiting task once its receive can proceed.  Nothing obliges a callback
\* to return, a ticker to fire or the hardware to raise an event.
FairFanSpec ==
  /\ FanSpec
  /\ WF_vars(FanReaderStep)
  /\ \A w \in Waiters : WF_vars(WaitRecv(w))

(***************************************************************************)
(* LifeSpec: the life cycle of the singleton.  Open and Close are whole    *)
(* calls made one after the other by one task, on a handle whose events    *)
(* have no handler; only system events that are not enabled are raised, so *)
(* the reader stays in its device read until the file is closed.           *)
(*                                                                         *)
(* life.res     what the last Open / Close call returned                   *)
(* life.writes  the register writes of the last call, in order             *)
(* life.cfg     the configuration of the handle opened last                *)
(* life.opens   number of Open calls that succeeded                        *)
(* life.cmr     channel map table: the byte of each system event           *)
(* life.hmr     host interrupt map table: the byte of each channel         *)
(* life.units   the units of the handle opened last                        *)
(* life.err     the channel a configuration error names, -1 when none      *)
(* life.leak    what a failed Open call opened and left open               *)
(* life.hostInt the host interrupt kept in each Event of the handle        *)
(* life.devs    the indices of the host interrupt devices the handle opened*)
(* life.sigMask p.sigMask of the handle opened last, per device index      *)
(*                                                                         *)
(* ESR0 is modelled as holding the value last written to it, less the bits *)
(* cleared through ECR0; SRSR0 / SECR0 and HIEISR set and clear bits.      *)
(***************************************************************************)
\* Number of Open calls that succeed.
MaxOpens == 2

LifeEvents == {16, 17}
LifeChannels == {1, 2, 3}

\* Configurations built with EnableUnit, Event2Channel, Channel2Interrupt.
LifeConfigs ==
  { [umask |-> 1, ev2chan |-> (16 :> 3), chan2hint |-> (3 :> 3)],
    [umask |-> 3, ev2chan |-> (16 :> 3 @@ 17 :> 1),
                  chan2hint |-> (3 :> 3 @@ 1 :> 1)],
    [umask |-> 0, ev2chan |-> (17 :> 2), chan2hint |-> (2 :> 3)],
    [umask |-> 2, ev2chan |-> (16 :> 3), chan2hint |-> << >>],
    [umask |-> 1, ev2chan |-> (16 :> 3 @@ 17 :> 2),
                  chan2hint |-> (3 :> 3)] }

\* What the driver files, the mapping and the hardware id give an Open
\* call: "io" fails readDriverValue, os.OpenFile or unix.Mmap, "badid" is an
\* unknown value of rREVID.
DrvOutcomes == {"ok", "io", "badid"}

NoConfig == [umask |-> 0, ev2chan |-> << >>, chan2hint |-> << >>]

RECURSIVE BitOr(_, _)
\* a | b on unsigned integers
BitOr(a, b) ==
  IF a = 0 THEN b
  ELSE IF b = 0 THEN a
  ELSE (IF a % 2 = 1 \/ b % 2 = 1 THEN 1 ELSE 0)
         + 2 * BitOr(a \div 2, b \div 2)

RECURSIVE Ascending(_)
\* The elements of a finite set of numbers, lowest first.
Ascending(S) == IF S = {} THEN << >>
                ELSE << Min(S) >> \o Ascending(S \ {Min(S)})

\* Variant of the check that never finds the device open.
AlreadyOpenNever == FALSE

\* if pru != nil { return nil, fmt.Errorf("Device already open; ...") }
AlreadyOpen == pru # 0

\* Variant of the validation that finds every channel mapped.
UnmappedNone(pc) == {}

\* hi, ok := pc.chan2hint[c]; if !ok { return nil, fmt.Errorf(...) }
UnmappedChannels(pc) ==
  { pc.ev2chan[se] : se \in DOMAIN pc.ev2chan } \ DOMAIN pc.chan2hint

\* p.evMask |= 1 << se
EvMaskOf(pc) == DOMAIN pc.ev2chan

\* hi, ok := pc.chan2hint[c]: a Go map lookup gives 0 for a missing key.
HostIntOf(pc, c) == IF c \in DOMAIN pc.chan2hint THEN pc.chan2hint[c] ELSE 0

\* Variant in which every host interrupt has a device, host interrupt h the
\* device h.
SigMaskNoSkip(pc, i) ==
  { se \in DOMAIN pc.ev2chan : HostIntOf(pc, pc.ev2chan[se]) = i }

\* Variant that puts every configured event into every device's mask.
SigMaskEvery(pc, i) == DOMAIN pc.ev2chan

\* if hi >= 2 { p.sigMask[hostInt2Signal(int(hi))] |= 1 << se }
SigMaskOf(pc, i) ==
  { se \in DOMAIN pc.ev2chan :
      /\ HostIntOf(pc, pc.ev2chan[se]) >= 2
      /\ hostInt2Signal(HostIntOf(pc, pc.ev2chan[se])) = i }

\* Variant that opens every host interrupt device.
SignalsAll(pc) == 0..(nSignals - 1)

\* The signal devices Open opens: for i := 0; i < nSignals; i++ {
\* if p.sigMask[i] != 0 { ...
SignalsOf(pc) == { i \in 0..(nSignals - 1) : SigMaskOf(pc, i) # {} }

\* hiMapped[c] = true, for c, hi := range pc.chan2hint
HiMappedOf(pc) == DOMAIN pc.chan2hint

\* if (pc.umask & 1) != 0 { p.units[0] = ... }; if (pc.umask & 2) != 0 ...
UnitsOf(pc) == { u \in 0..(nUnits - 1) : (pc.umask \div (2 ^ u)) % 2 = 1 }

\* cmr[se/4] |= uint32(c) << ((se % 4) * 8) on the table read from rCMRBase
CmrOf(pc, cmr) ==
  [se \in DOMAIN cmr |->
     IF se \in DOMAIN pc.ev2chan THEN BitOr(cmr[se], pc.ev2chan[se])
     ELSE cmr[se]]

\* hmr[c/4] |= uint32(hi) << ((c % 4) * 8) on the table read from rHMRBase
HmrOf(pc, hmr) ==
  [c \in DOMAIN hmr |->
     IF c \in DOMAIN pc.chan2hint THEN BitOr(hmr[c], pc.chan2hint[c])
     ELSE hmr[c]]

\* ev.hostInt = uint32(hi); p.events[se] = ev
EventHostInts(pc) ==
  [se \in DOMAIN pc.ev2chan |-> HostIntOf(pc, pc.ev2chan[se])]

\* The first loop of Open indexes cmr[se/4] and p.events[se] with the event
\* and p.sigMask[hostInt2Signal(int(hi))] with the host interrupt: an index
\* outside the array is a run-time panic.
EventLoopPanics(pc) ==
  \E se \in DOMAIN pc.ev2chan :
    \/ se \div 4 >= nEvents \div 4
    \/ /\ pc.ev2chan[se] \in DOMAIN pc.chan2hint
       /\ HostIntOf(pc, pc.ev2chan[se]) >= 2
       /\ hostInt2Signal(HostIntOf(pc, pc.ev2chan[se])) >= nSignals

\* The first loop of Open can reach its return for a channel that is not
\* mapped: the event of that channel passed the index of cmr.
EventLoopRejects(pc) ==
  { pc.ev2chan[se] : se \in { x \in DOMAIN pc.ev2chan : x < nEvents } }
    \cap UnmappedChannels(pc)

\* The second loop of Open indexes hiMapped[c] and hmr[c/4] with the channel.
ChannelLoopPanics(pc) ==
  \E c \in DOMAIN pc.chan2hint :
    c >= nHostInts \/ c \div 4 >= (nHostInts + 3) \div 4

\* if hiMapped[c] { return nil, fmt.Errorf("host interrupt %d has multiple
\* channels assigned", hi) }; hiMapped[c] = true.  The array is indexed by
\* the channel, the key of the map the loop ranges over: the test finds a
\* key the loop has already seen.
MultipleAssigned(pc) ==
  \E c \in DOMAIN pc.chan2hint :
    Cardinality({ k \in DOMAIN pc.chan2hint : k = c }) > 1

\* newUnit(...) resets the unit: u.pru.wr(u.ctlBase+c_CONTROL, 0)
UnitWrites(units) ==
  [k \in 1..Cardinality(units) |->
     [reg |-> "CONTROL", val |-> << Ascending(units)[k], 0 >>]]

\* Variant that re-enables interrupts globally before the event enables.
OpenWritesEnableEarly(pc, esr0, cmr0, hmr0) ==
  << [reg |-> "GER", val |-> 0],
     [reg |-> "ESR0", val |-> esr0 \ EvMaskOf(pc)],
     [reg |-> "ECR0", val |-> EvMaskOf(pc)],
     [reg |-> "SECR0", val |-> EvMaskOf(pc)],
     [reg |-> "SIPR0", val |-> 0..(nEvents - 1)],
     [reg |-> "CMR", val |-> CmrOf(pc, cmr0)],
     [reg |-> "HMR", val |-> HmrOf(pc, hmr0)],
     [reg |-> "SITR0", val |-> {}],
     [reg |-> "GER", val |-> 1],
     [reg |-> "ESR0", val |-> EvMaskOf(pc) \cup esr0] >>
  \o [k \in 1..Cardinality(HiMappedOf(pc)) |->
        [reg |-> "HIEISR", val |-> Ascending(HiMappedOf(pc))[k]]]

\* The interrupt controller writes of Open, in order.
OpenWrites(pc, esr0, cmr0, hmr0) ==
  << [reg |-> "GER", val |-> 0],
     [reg |-> "ESR0", val |-> esr0 \ EvMaskOf(pc)],
     [reg |-> "ECR0", val |-> EvMaskOf(pc)],
     [reg |-> "SECR0", val |-> EvMaskOf(pc)],
     [reg |-> "SIPR0", val |-> 0..(nEvents - 1)],
     [reg |-> "CMR", val |-> CmrOf(pc, cmr0)],
     [reg |-> "HMR", val |-> HmrOf(pc, hmr0)],
     [reg |-> "SITR0", val |-> {}],
     [reg |-> "ESR0", val |-> EvMaskOf(pc) \cup esr0] >>
  \o [k \in 1..Cardinality(HiMappedOf(pc)) |->
        [reg |-> "HIEISR", val |-> Ascending(HiMappedOf(pc))[k]]]
  \o << [reg |-> "GER", val |-> 1] >>

\* The interrupt controller writes of Close, in order.
CloseWrites(evMask, esr0) ==
  << [reg |-> "GER", val |-> 0],
     [reg |-> "ESR0", val |-> esr0 \ evMask],
     [reg |-> "SECR0", val |-> evMask],
     [reg |-> "GER", val |-> 1] >>

LifeInit ==
  /\ pru = 0
  /\ handlerRegistered = << >>
  /\ evChan = << >>
  /\ stopChan = << >>
  /\ sigFile = FALSE
  /\ mapped = FALSE
  /\ ger = 1
  /\ esr \in {{}, {17}}
  /\ srsr = {}
  /\ hien = {}
  /\ devReady = FALSE
  /\ mgr = [pc |-> "idle", ev |-> 0, ret |-> "idle"]
  /\ disp = [h \in Handlers |-> [pc |-> "none", ev |-> 0]]
  /\ waiter = [w \in Waiters |-> [pc |-> "idle", ev |-> 0]]
  /\ wres = [w \in Waiters |-> NoResult]
  /\ reader = [pc |-> "none", events |-> {}, mask |-> {}, hi |-> 0]
  /\ panicked = FALSE
  /\ raised = 0
  /\ nextN = 1
  /\ nextH = 1
  /\ curH = [e \in SpecEvents |-> 0]
  /\ cleared = {}
  /\ stale = {}
  /\ waitGot = {}
  /\ cbLog = << >>
  /\ dropped = {}
  /\ closeDone = FALSE
  /\ hAtClose = 0
  /\ \E b \in {0, 4} :
       life = [res |-> "none", writes |-> << >>, cfg |-> NoConfig,
               opens |-> 0, cmr |-> [se \in LifeEvents |-> b],
               hmr |-> [c \in LifeChannels |-> b], units |-> {},
               err |-> -1, leak |-> {}, hostInt |-> << >>, devs |-> {},
             sigMask |-> [i \in 0..(nSignals - 1) |-> {}]]

\* Open(pc).  drv: what the driver files, the mapping and the hardware id
\* give; dev: the host interrupt device opens.
LifeOpen(pc, drv, dev) ==
  /\ ~panicked
  /\ AlreadyOpen \/ life.opens < MaxOpens
  /\ IF AlreadyOpen
     THEN /\ life' = [life EXCEPT !.res = "already_open", !.writes = << >>,
                                  !.err = -1, !.leak = {}]
          /\ UNCHANGED << progVars, hwVars, reader, panicked >>
     ELSE IF drv = "io"
     THEN \* return nil, err (after f.Close() when unix.Mmap failed)
          /\ life' = [life EXCEPT !.res = "io_error", !.writes = << >>,
                                  !.err = -1, !.leak = {}]
          /\ UNCHANGED << progVars, hwVars, reader, panicked >>
     ELSE IF drv = "badid"
     THEN \* default: f.Close(); return nil, fmt.Errorf("Unknown PRU ...
          /\ life' = [life EXCEPT !.res = "bad_id", !.writes = << >>,
                                  !.err = -1, !.leak = {"mem"}]
          /\ UNCHANGED << progVars, hwVars, reader, panicked >>
     ELSE IF EventLoopPanics(pc) \/ UnmappedChannels(pc) # {}
     THEN \* for se, c := range pc.ev2chan, in the order the map gives
          \/ /\ EventLoopPanics(pc)
             /\ panicked' = TRUE
             /\ UNCHANGED << progVars, hwVars, reader, life >>
          \/ \* return nil, fmt.Errorf("chan %d not mapped to host ...", c)
             /\ \E c \in EventLoopRejects(pc) :
                  life' = [life EXCEPT !.res = "bad_config", !.writes = << >>,
                                       !.err = c, !.leak = {"mem", "uio0"}]
             /\ UNCHANGED << progVars, hwVars, reader, panicked >>
     ELSE IF ChannelLoopPanics(pc)
     THEN /\ panicked' = TRUE
          /\ UNCHANGED << progVars, hwVars, reader, life >>
     ELSE IF MultipleAssigned(pc)
     THEN /\ life' = [life EXCEPT !.res = "multi_channel", !.writes = << >>,
                                  !.err = -1, !.leak = {"mem", "uio0"}]
          /\ UNCHANGED << progVars, hwVars, reader, panicked >>
     ELSE IF SignalsOf(pc) # {} /\ ~dev
     THEN \* p.Close() on the handle under construction; return nil, err
          /\ life' = [life EXCEPT !.res = "dev_error",
                                  !.writes = CloseWrites(EvMaskOf(pc), esr),
                                  !.err = -1, !.leak = {}]
          /\ ger' = 1
          /\ esr' = esr \ EvMaskOf(pc)
          /\ srsr' = srsr \ EvMaskOf(pc)
          /\ pru' = 0
          /\ UNCHANGED << handlerRegistered, evChan, stopChan, sigFile,
                          mapped, hien, devReady, reader, panicked >>
     ELSE /\ life' = [life EXCEPT
                        !.res = "ok",
                        !.writes = UnitWrites(UnitsOf(pc))
                                     \o OpenWrites(pc, esr, life.cmr, life.hmr),
                        !.cfg = pc,
                        !.opens = life.opens + 1,
                        !.cmr = CmrOf(pc, life.cmr),
                        !.hmr = HmrOf(pc, life.hmr),
                        !.units = UnitsOf(pc),
                        !.err = -1,
                        !.leak = {},
                        !.hostInt = EventHostInts(pc),
                        !.devs = SignalsOf(pc),
                        !.sigMask = [i \in 0..(nSignals - 1) |->
                                       SigMaskOf(pc, i)]]
          /\ handlerRegistered' = [e \in EvMaskOf(pc) |-> FALSE]
          /\ evChan' = [e \in EvMaskOf(pc) |-> [q |-> << >>, closed |-> FALSE]]
          /\ stopChan' = [e \in EvMaskOf(pc) |-> [gen |-> 0, closed |-> FALSE]]
          /\ sigFile' = (SignalsOf(pc) # {})
          /\ mapped' = TRUE
          /\ reader' = IF SignalsOf(pc) = {}
                       THEN [pc |-> "none", events |-> {}, mask |-> {},
                             hi |-> 0]
                       ELSE [pc |-> "read", events |-> {},
                             mask |-> SigMaskOf(pc, Min(SignalsOf(pc))),
                             hi |-> signal2HostInt(Min(SignalsOf(pc)))]
          /\ ger' = 1
          /\ esr' = EvMaskOf(pc) \cup esr
          /\ srsr' = srsr \ EvMaskOf(pc)
          /\ hien' = hien \cup HiMappedOf(pc)
          /\ pru' = 1
          /\ UNCHANGED << devReady, panicked >>
  /\ UNCHANGED << mgr, disp, waiter, wres, histVars >>

\* p.Close() on the open handle.
LifeClose ==
  /\ ~panicked
  /\ pru # 0
  /\ life' = [life EXCEPT
                !.res = "closed",
                !.writes = UnitWrites(life.units)
                             \o CloseWrites(Configured, esr),
                !.err = -1,
                !.leak = {}]
  /\ ger' = 1
  /\ esr' = esr \ Configured
  /\ srsr' = srsr \ Configured
  /\ pru' = 0
  /\ sigFile' = FALSE
  /\ evChan' = [e \in Configured |-> [evChan[e] EXCEPT !.closed = TRUE]]
  /\ mapped' = FALSE
  /\ UNCHANGED << handlerRegistered, stopChan, hien, devReady, reader, mgr,
                  disp, waiter, wres, panicked, histVars >>

\* p.Close() once more on the handle that has been closed.  Close tests
\* nothing before it acts: its first statements write registers through
\* p.mem, which the first call unmapped.  The access faults, or, where the
\* process has mapped the address range anew meanwhile, the writes of
\* CloseWrites land in that memory and close(e.evChan) then panics on the
\* queue the first call closed.
LifeCloseAgain ==
  /\ ~panicked
  /\ pru = 0
  /\ life.opens > 0
  /\ ~mapped
  /\ \E ws \in { << >>, UnitWrites(life.units) \o CloseWrites(Configured, esr) } :
       /\ ws = << >> \/ Configured # {}
       /\ life' = [life EXCEPT !.res = "closed_again", !.writes = ws,
                               !.err = -1, !.leak = {}]
  /\ panicked' = TRUE
  /\ UNCHANGED << progVars, hwVars, reader, mgr, disp, waiter, wres,
                  histVars >>

\* p.SendEvent(se) for a system event that is not enabled.
LifeSendEvent(se) ==
  /\ ~panicked
  /\ pru # 0
  /\ se \notin esr
  /\ srsr' = srsr \cup {se}
  /\ UNCHANGED << progVars, ger, esr, hien, devReady, reader, mgr, disp,
                  waiter, wres, panicked, histVars, life >>

LifeNext ==
  \/ \E pc \in LifeConfigs, drv \in DrvOutcomes, dev \in BOOLEAN :
       LifeOpen(pc, drv, dev)
  \/ LifeClose
  \/ LifeCloseAgain
  \/ \E se \in LifeEvents : LifeSendEvent(se)
  \/ ReaderReadErr

LifeSpec == LifeInit /\ [][LifeNext]_vars

(***************************************************************************)
(* ApiSpec: one caller that builds a Config with the builder calls, opens  *)
(* the subsystem with it, goes on calling the builder on the same Config   *)
(* and calls ClearEvent on the handle.  The arguments are Go ints, negative*)
(* ones included.                                                          *)
(*                                                                         *)
(* life.ic      the caller's Config object                                 *)
(* life.built   number of builder calls made                               *)
(* life.call    the builder call made last, with its arguments             *)
(***************************************************************************)
\* Number of builder calls the caller makes.
MaxBuild == 3

\* Arguments of the builder calls and of ClearEvent.
CfgUnitArgs == {0, 1, -1}
CfgEventArgs == {16, 80, -1}
CfgChannelArgs == {2, 3, -1}
CfgHostIntArgs == {1, 3, -1}
ClearEventArgs == {16, 17, 64}

\* a % n in Go: the result has the sign of the dividend.
GoRem(a, n) == IF a >= 0 THEN a % n ELSE -((-a) % n)

\* byte(x): the low eight bits of the two's complement value.
ToByte(x) == x % 256

\* 1 << uint(k) on an int: uint(k) of a negative k is at least 2^63, and a
\* shift by the width of the type or more gives 0.
ShiftOne(k) == IF k < 0 \/ k >= 64 THEN 0 ELSE 2 ^ k

\* m[k] = v on a Go map
MapPut(m, k, v) == [x \in DOMAIN m \cup {k} |-> IF x = k THEN v ELSE m[x]]

\* ic.umask |= 1 << uint(u % nUnits)
EnableUnitMask(umask, u) == BitOr(umask, ShiftOne(GoRem(u, nUnits)))

\* The key and the value Event2Channel stores.
EventKey(se) == ToByte(GoRem(se, nEvents))
ChannelByte(c) == ToByte(GoRem(c, nChannels))
HostIntByte(h) == ToByte(GoRem(h, nHostInts))

\* The state before any Open call: no handle, no task, the controller as
\* the kernel driver leaves it; l is the record of the caller.
UnopenedInit(l) ==
  /\ pru = 0
  /\ handlerRegistered = << >>
  /\ evChan = << >>
  /\ stopChan = << >>
  /\ sigFile = FALSE
  /\ mapped = FALSE
  /\ ger = 1
  /\ esr = {}
  /\ srsr = {}
  /\ hien = {}
  /\ devReady = FALSE
  /\ mgr = [pc |-> "idle", ev |-> 0, ret |-> "idle"]
  /\ disp = [h \in Handlers |-> [pc |-> "none", ev |-> 0]]
  /\ waiter = [w \in Waiters |-> [pc |-> "idle", ev |-> 0]]
  /\ wres = [w \in Waiters |-> NoResult]
  /\ reader = [pc |-> "none", events |-> {}, mask |-> {}, hi |-> 0]
  /\ panicked = FALSE
  /\ raised = 0
  /\ nextN = 1
  /\ nextH = 1
  /\ curH = [e \in SpecEvents |-> 0]
  /\ cleared = {}
  /\ stale = {}
  /\ waitGot = {}
  /\ cbLog = << >>
  /\ dropped = {}
  /\ closeDone = FALSE
  /\ hAtClose = 0
  /\ life = l

ApiInit ==
  UnopenedInit([res |-> "none", writes |-> << >>, cfg |-> NoConfig,
                opens |-> 0, cmr |-> [se \in LifeEvents |-> 0],
                hmr |-> [c \in LifeChannels |-> 0], units |-> {},
                err |-> -1, leak |-> {}, hostInt |-> << >>, devs |-> {},
             sigMask |-> [i \in 0..(nSignals - 1) |-> {}],
                ic |-> NoConfig, built |-> 0, call |-> << >>])

\* A builder call changes the Config object and nothing else.
CfgCall(ic, call) ==
  /\ ~panicked
  /\ life.built < MaxBuild
  /\ life' = [life EXCEPT !.ic = ic, !.built = life.built + 1,
                          !.call = call]
  /\ UNCHANGED << progVars, hwVars, mgr, disp, waiter, wres, reader, panicked,
                  histVars >>

\* ic.Clear()
CfgClear == CfgCall(NoConfig, << "Clear" >>)

\* ic.EnableUnit(u)
CfgEnableUnit(u) ==
  CfgCall([life.ic EXCEPT !.umask = EnableUnitMask(life.ic.umask, u)],
          << "EnableUnit", u >>)

\* ic.Event2Channel(s, c)
CfgEvent2Channel(se, c) ==
  CfgCall([life.ic EXCEPT
             !.ev2chan = MapPut(life.ic.ev2chan, EventKey(se), ChannelByte(c))],
          << "Event2Channel", se, c >>)

\* ic.Channel2Interrupt(c, h)
CfgChannel2Interrupt(c, h) ==
  CfgCall([life.ic EXCEPT
             !.chan2hint = MapPut(life.ic.chan2hint, ChannelByte(c),
                                  HostIntByte(h))],
          << "Channel2Interrupt", c, h >>)

\* Open(ic) with the caller's Config; the driver files and devices open.
ApiOpen == LifeOpen(life.ic, "ok", TRUE)

\* Variant that writes the channel of the event.
EventChannel(se) == life.cfg.ev2chan[se]

\* Variant that looks the event up in the caller's Config at the time of
\* the call.
EventHostIntLive(se) ==
  IF se \in DOMAIN life.ic.ev2chan
  THEN HostIntOf(life.ic, life.ic.ev2chan[se])
  ELSE 0

\* p.events[se].hostInt
EventHostInt(se) == life.hostInt[se]

\* The register writes of ClearEvent for a configured event.
ClearEventWrites(se) ==
  << [reg |-> "SECR0", val |-> {se}],
     [reg |-> "HIEISR", val |-> EventHostInt(se)] >>

\* p.ClearEvent(se) on the open handle.  p.events is an array of nEvents
\* pointers: an index outside it is a run-time panic.
ApiClearEvent(se) ==
  /\ ~panicked
  /\ pru # 0
  /\ IF se >= nEvents
     THEN /\ panicked' = TRUE
          /\ UNCHANGED << srsr, hien, life >>
     ELSE IF se \notin Configured
     THEN \* return fmt.Errorf("Event %d not configured", se)
          /\ life' = [life EXCEPT !.res = "not_configured",
                                  !.writes = << >>]
          /\ UNCHANGED << srsr, hien, panicked >>
     ELSE /\ life' = [life EXCEPT !.res = "cleared",
                                  !.writes = ClearEventWrites(se)]
          /\ srsr' = srsr \ {se}
          /\ hien' = hien \cup {EventHostInt(se)}
          /\ UNCHANGED panicked
  /\ UNCHANGED << progVars, ger, esr, devReady, mgr, disp, waiter, wres,
                  reader, histVars >>

ApiNext ==
  \/ CfgClear
  \/ \E u \in CfgUnitArgs : CfgEnableUnit(u)
  \/ \E se \in CfgEventArgs, c \in CfgChannelArgs : CfgEvent2Channel(se, c)
  \/ \E c \in CfgChannelArgs, h \in CfgHostIntArgs : CfgChannel2Interrupt(c, h)
  \/ ApiOpen
  \/ \E se \in ClearEventArgs : ApiClearEvent(se)

ApiSpec == ApiInit /\ [][ApiNext]_vars

(***************************************************************************)
(* UnitSpec: Open with both units enabled, then RunAt, LoadAt and          *)
(* LoadAndRunAt on the units of the handle, called one after the other.    *)
(*                                                                         *)
(* life.ctl     the CONTROL register of each unit                          *)
(* life.call    the unit call made last, with its arguments                *)
(* life.writes  its writes: [reg |-> "CONTROL", val |-> << unit, value >>] *)
(*              and [reg |-> "IRAM", val |-> << unit, offset, word >>],    *)
(*              the offset counted from the start of the unit's            *)
(*              instruction memory                                         *)
(***************************************************************************)
am3xxIRamSize == 8192
ctl_RESET == 1
ctl_ENABLE == 2

\* Width of uint and uintptr in the model.  The builds have 32 or 64 bits;
\* the model keeps the wrap-around at a width its integers can hold, above
\* the size of the instruction memory.
UintBits == 16

UnitConfig == [umask |-> 3, ev2chan |-> << >>, chan2hint |-> << >>]

\* Arguments of the unit calls: byte addresses and programs.
UnitAddrArgs == {0, 4, 6, 8188, 8192, 2 ^ UintBits - 4}
UnitCodeArgs == { << >>, << 7 >>, << 7, 9 >> }

UnitInit ==
  UnopenedInit([res |-> "none", writes |-> << >>, cfg |-> NoConfig,
                opens |-> 0, cmr |-> [se \in LifeEvents |-> 0],
                hmr |-> [c \in LifeChannels |-> 0], units |-> {},
                err |-> -1, leak |-> {}, hostInt |-> << >>, devs |-> {},
             sigMask |-> [i \in 0..(nSignals - 1) |-> {}],
                ctl |-> [u \in 0..(nUnits - 1) |-> 0], call |-> << >>])

\* Open(ic); newUnit resets each unit: CONTROL = 0.
UnitOpen == pru = 0 /\ LifeOpen(UnitConfig, "ok", TRUE)

\* u.Disable(): u.pru.wr(u.ctlBase+c_CONTROL, ctl_RESET)
DisableWrite(u) == [reg |-> "CONTROL", val |-> << u, ctl_RESET >>]

\* u.pru.wr(u.ctlBase+c_CONTROL, (uint32(addr) << (16-2)) | ctl_ENABLE),
\* reached with addr below am3xxIRamSize only, where the conversion and the
\* shift lose no bit.
EnableWrite(u, addr) ==
  [reg |-> "CONTROL", val |-> << u, BitOr(addr * 2 ^ 14, ctl_ENABLE) >>]

\* Variant of the checks of RunAt without the alignment check.
RunAtRangeOnly(addr) ==
  IF addr >= am3xxIRamSize THEN "out_of_range" ELSE "ok"

\* RunAt: if (addr % 4) != 0 { return ... }; if addr >= am3xxIRamSize
\* { return ... }
RunAtCheck(addr) ==
  IF addr % 4 # 0 THEN "not_aligned"
  ELSE IF addr >= am3xxIRamSize THEN "out_of_range"
  ELSE "ok"

\* The writes of RunAt.
RunAtWrites(u, addr) ==
  IF RunAtCheck(addr) = "ok"
  THEN << DisableWrite(u), EnableWrite(u, addr) >>
  ELSE << >>

\* LoadAt: if uint(len(code) * 4) + addr > am3xxIRamSize { return ... }
LoadAtCheck(code, addr) ==
  IF (Len(code) * 4 + addr) % 2 ^ UintBits > am3xxIRamSize
  THEN "too_large"
  ELSE "ok"

\* Variant of LoadAt that copies the program without disabling the unit.
LoadAtWritesNoDisable(u, code, addr) ==
  IF LoadAtCheck(code, addr) = "ok"
  THEN [k \in 1..Len(code) |->
          [reg |-> "IRAM",
           val |-> << u, (addr + 4 * (k - 1)) % 2 ^ UintBits, code[k] >>]]
  ELSE << >>

\* The writes of LoadAt: u.Disable(), then
\* u.pru.write(code, u.iram + uintptr(addr)), one word after the other.
LoadAtWrites(u, code, addr) ==
  IF LoadAtCheck(code, addr) = "ok"
  THEN << DisableWrite(u) >> \o
       [k \in 1..Len(code) |->
          [reg |-> "IRAM",
           val |-> << u, (addr + 4 * (k - 1)) % 2 ^ UintBits, code[k] >>]]
  ELSE << >>

\* The CONTROL register of unit u after the writes ws.
RECURSIVE CtlAfter(_, _, _)
CtlAfter(c, u, ws) ==
  IF ws = << >> THEN c
  ELSE CtlAfter(IF Head(ws).reg = "CONTROL" /\ Head(ws).val[1] = u
                THEN Head(ws).val[2] ELSE c,
                u, Tail(ws))

\* A call on unit u of the open handle returns res after the writes ws.
UnitCall(u, call, res, ws) ==
  /\ ~panicked
  /\ pru # 0
  /\ u \in life.units
  /\ life' = [life EXCEPT !.res = res, !.writes = ws, !.call = call,
                          !.ctl[u] = CtlAfter(life.ctl[u], u, ws)]
  /\ UNCHANGED << progVars, hwVars, mgr, disp, waiter, wres, reader, panicked,
                  histVars >>

\* u.RunAt(addr)
UnitRunAt(u, addr) ==
  UnitCall(u, << "RunAt", u, addr >>, RunAtCheck(addr), RunAtWrites(u, addr))

\* u.LoadAt(code, addr)
UnitLoadAt(u, code, addr) ==
  UnitCall(u, << "LoadAt", u, code, addr >>, LoadAtCheck(code, addr),
           LoadAtWrites(u, code, addr))

\* u.LoadAndRunAt(code, addr): err := u.LoadAt(code, addr); if err != nil
\* { return err }; return u.RunAt(addr)
UnitLoadAndRunAt(u, code, addr) ==
  UnitCall(u, << "LoadAndRunAt", u, code, addr >>,
           IF LoadAtCheck(code, addr) = "ok" THEN RunAtCheck(addr)
           ELSE LoadAtCheck(code, addr),
           IF LoadAtCheck(code, addr) = "ok"
           THEN LoadAtWrites(u, code, addr) \o RunAtWrites(u, addr)
           ELSE << >>)

UnitNext ==
  \/ UnitOpen
  \/ \E u \in 0..(nUnits - 1), addr \in UnitAddrArgs : UnitRunAt(u, addr)
  \/ \E u \in 0..(nUnits - 1), code \in UnitCodeArgs, addr \in UnitAddrArgs :
       UnitLoadAt(u, code, addr)
  \/ \E u \in 0..(nUnits - 1), code \in UnitCodeArgs, addr \in UnitAddrArgs :
       UnitLoadAndRunAt(u, code, addr)

UnitSpec == UnitInit /\ [][UnitNext]_vars

(***************************************************************************)
(* RouteSpec: Open with a configuration that routes events to the host     *)
(* interrupts 0, 1, 2 and 9, then the hardware and the reader of the       *)
(* handle.  No task receives, so what the reader queued stays queued.      *)
(***************************************************************************)
RouteEvents == {16, 17, 18, 20}
RouteChannels == {0, 1, 2, 9}

RouteConfigs ==
  { [umask |-> 0, ev2chan |-> (16 :> 0 @@ 17 :> 1),
                  chan2hint |-> (0 :> 0 @@ 1 :> 1)],
    [umask |-> 0, ev2chan |-> (18 :> 2 @@ 16 :> 0),
                  chan2hint |-> (2 :> 2 @@ 0 :> 0)],
    [umask |-> 0, ev2chan |-> (20 :> 9 @@ 17 :> 1),
                  chan2hint |-> (9 :> 9 @@ 1 :> 1)] }

RouteInit ==
  UnopenedInit([res |-> "none", writes |-> << >>, cfg |-> NoConfig,
                opens |-> 0, cmr |-> [se \in RouteEvents |-> 0],
                hmr |-> [c \in RouteChannels |-> 0], units |-> {},
                err |-> -1, leak |-> {}, hostInt |-> << >>, devs |-> {},
             sigMask |-> [i \in 0..(nSignals - 1) |-> {}]])

RouteOpen == pru = 0 /\ \E pc \in RouteConfigs : LifeOpen(pc, "ok", TRUE)

RouteNext ==
  \/ RouteOpen
  \/ \E e \in Configured : FanRaise(e)
  \/ Interrupt
  \/ FanReaderStep

RouteSpec == RouteInit /\ [][RouteNext]_vars

(***************************************************************************)
(* TaskSpec: Open with a configuration in which events share a host        *)
(* interrupt, use several host interrupt devices or use none, then the     *)
(* calls a program makes on the open handle and its events: PRU.Event,     *)
(* Wait, WaitTimeout, SetHandler and ClearHandler, beside the hardware and *)
(* the reader of the first device.  The handle is not closed.              *)
(***************************************************************************)
\* Number of times the hardware raises a system event under TaskSpec.
MaxTaskRaise == 1
\* Number of SetHandler calls under TaskSpec.
MaxTaskHandlers == 1

TaskEvents == {16, 17}
TaskChannels == {0, 1, 2, 3}

TaskConfigs ==
  { [umask |-> 0, ev2chan |-> (16 :> 2 @@ 17 :> 3),
                  chan2hint |-> (2 :> 3 @@ 3 :> 3)],
    [umask |-> 0, ev2chan |-> (16 :> 2 @@ 17 :> 3),
                  chan2hint |-> (2 :> 2 @@ 3 :> 9)],
    [umask |-> 0, ev2chan |-> (16 :> 0 @@ 17 :> 1),
                  chan2hint |-> (0 :> 0 @@ 1 :> 1)],
    [umask |-> 0, ev2chan |-> (16 :> 2 @@ 17 :> 2),
                  chan2hint |-> (2 :> 3 @@ 1 :> 1)] }

\* The arguments of PRU.Event: events with and without an Event.
TaskEventArgs == {16, 30}

TaskInit ==
  /\ pru = 0
  /\ handlerRegistered = << >>
  /\ evChan = << >>
  /\ stopChan = << >>
  /\ sigFile = FALSE
  /\ mapped = FALSE
  /\ ger = 1
  /\ esr = {}
  /\ srsr = {}
  /\ hien = {}
  /\ devReady = FALSE
  /\ mgr = [pc |-> "idle", ev |-> 0, ret |-> "idle"]
  /\ disp = [h \in Handlers |-> [pc |-> "none", ev |-> 0]]
  /\ waiter = [w \in Waiters |-> [pc |-> "idle", ev |-> 0]]
  /\ wres = [w \in Waiters |-> NoResult]
  /\ reader = [pc |-> "none", events |-> {}, mask |-> {}, hi |-> 0]
  /\ panicked = FALSE
  /\ raised = 0
  /\ nextN = 1
  /\ nextH = 1
  /\ curH = [e \in TaskEvents |-> 0]
  /\ cleared = {}
  /\ stale = {}
  /\ waitGot = {}
  /\ cbLog = << >>
  /\ dropped = {}
  /\ closeDone = FALSE
  /\ hAtClose = 0
  /\ life = [res |-> "none", writes |-> << >>, cfg |-> NoConfig,
             opens |-> 0, cmr |-> [se \in TaskEvents |-> 0],
             hmr |-> [c \in TaskChannels |-> 0], units |-> {},
             err |-> -1, leak |-> {}, hostInt |-> << >>, devs |-> {},
             sigMask |-> [i \in 0..(nSignals - 1) |-> {}],
             got |-> "none"]

TaskOpen == pru = 0 /\ \E pc \in TaskConfigs : LifeOpen(pc, "ok", TRUE)

\* func (p *PRU) Event(id int) *Event { return p.events[id] }: life.got is
\* what the call returned, the Event of the system event or nil.
TaskEvent(id) ==
  /\ ~panicked
  /\ pru # 0
  /\ life' = [life EXCEPT !.got = IF id \in Configured THEN "event" ELSE "nil"]
  /\ UNCHANGED << progVars, hwVars, mgr, disp, waiter, wres, reader, panicked,
                  histVars >>

\* SetHandler(f) is called; TaskSpec follows MaxTaskHandlers such calls.
TaskSetHandlerCall(e) == nextH <= MaxTaskHandlers /\ SetHandlerCall(e)

\* The steps of SetHandler and ClearHandler called by the managing task.
HandlerStep ==
  \/ \E e \in Configured : TaskSetHandlerCall(e)
  \/ \E e \in Configured : ClearHandlerCall(e)
  \/ ClearCheck
  \/ \E h \in Handlers : ClearSendStop(h)
  \/ \E h \in Handlers : ClearRecvAck(h)
  \/ ClearCloseStop
  \/ ClearFlag
  \/ SetFlag
  \/ SetMakeStop
  \/ SetGo

TaskRaise(e) == RaiseUpTo(e, MaxTaskRaise)

TaskNext ==
  \/ TaskOpen
  \/ \E id \in TaskEventArgs : TaskEvent(id)
  \/ \E e \in Configured : TaskRaise(e)
  \/ Interrupt
  \/ FanReaderStep
  \/ \E w \in Waiters : WaiterStep(w)
  \/ \E h \in Handlers : DispTake(h)
  \/ \E h \in Handlers : DispReturn(h)
  \/ HandlerStep

TaskSpec == TaskInit /\ [][TaskNext]_vars

(***************************************************************************)
(* RamSpec: the ramIO that ram.Open gives over a RAM block, and the calls  *)
(* of one task on it.  The blocks of the package are slices of the mapping *)
(* (u.Ram = p.mem[ram : ram+am3xxRamSize], p.SharedRam likewise), whose    *)
(* capacity reaches to the end of the mapping, so cap(base) exceeds        *)
(* len(base); a block made on its own has cap(base) = len(base).           *)
(*                                                                         *)
(* life.max      ramIO.max, cap(base)                                      *)
(* life.current  ramIO.current                                             *)
(* life.call     the call made last, with its arguments                    *)
(* life.at       the cursor at which the last call started to transfer     *)
(* life.n        the count the last call returned                          *)
(* life.res      the error the last call returned                          *)
(***************************************************************************)
\* len(base) of the block in the model.
RamLen == 2
\* The largest cursor the model follows.
RamMaxCursor == 5
\* Width of a Go int in the model; the builds have 32 or 64 bits.
IntBits == 16

SeekStart == 0
SeekCurrent == 1
SeekEnd == 2

RamCaps == {RamLen, RamLen + 1}
RamOffsArgs == {-1, 0, 1, RamLen, RamLen + 1, 2 ^ IntBits + 1}
RamLenArgs == {0, 1, RamLen + 1}
RamWhenceArgs == {SeekStart, SeekCurrent, SeekEnd, 3}

\* int(offs) of an int64: the low IntBits bits, as a signed number.
ToInt(offs) ==
  ((offs + 2 ^ (IntBits - 1)) % 2 ^ IntBits) - 2 ^ (IntBits - 1)

\* func (base ram) Open() *ramIO { return &ramIO{Data: base, max: cap(base)} }
RamInit ==
  \E c \in RamCaps :
    UnopenedInit([max |-> c, current |-> 0, call |-> << >>, at |-> 0,
                  n |-> 0, res |-> "none"])

\* r.Data[r.current:] panics unless 0 <= r.current <= len(r.Data).
SlicePanics(cur) == cur < 0 \/ cur > RamLen

\* n := copy(r.Data[r.current:], p) and n := copy(p, r.Data[r.current:])
CopyCount(k, cur) == IF k < RamLen - cur THEN k ELSE RamLen - cur

\* Write and Read from cursor cur with a slice of length k:
\* r.current += n; if n != len(p) { return n, io.EOF }; return n, nil
Transfer(k, cur) ==
  IF SlicePanics(cur)
  THEN [current |-> cur, at |-> cur, n |-> 0, res |-> "panic"]
  ELSE [current |-> cur + CopyCount(k, cur), at |-> cur,
        n |-> CopyCount(k, cur),
        res |-> IF CopyCount(k, cur) # k THEN "EOF" ELSE "nil"]

\* WriteAt and ReadAt: if int(offs) >= r.max { return 0, io.EOF };
\* r.current = int(offs); return r.Write(p)
TransferAt(k, offs, cur, max) ==
  IF ToInt(offs) >= max
  THEN [current |-> cur, at |-> ToInt(offs), n |-> 0, res |-> "EOF"]
  ELSE Transfer(k, ToInt(offs))

\* WriteByte and ReadByte: if r.current >= r.max { return io.EOF };
\* r.Data[r.current] = b; r.current++.  The index panics unless
\* 0 <= r.current < len(r.Data).
ByteTransfer(cur, max) ==
  IF cur >= max THEN [current |-> cur, at |-> cur, n |-> 0, res |-> "EOF"]
  ELSE IF cur < 0 \/ cur >= RamLen
  THEN [current |-> cur, at |-> cur, n |-> 0, res |-> "panic"]
  ELSE [current |-> cur + 1, at |-> cur, n |-> 1, res |-> "nil"]

\* Seek: the cursor it computes from offs and whence.
SeekTarget(offs, whence, cur, max) ==
  IF whence = SeekStart THEN ToInt(offs)
  ELSE IF whence = SeekCurrent THEN ToInt(offs) + cur
  ELSE max - ToInt(offs)

\* Seek: default: return 0, fmt.Errorf("unknown whence");
\* if n < 0 { return 0, fmt.Errorf("negative offset") }; r.current = n
SeekResult(offs, whence, cur, max) ==
  IF whence \notin {SeekStart, SeekCurrent, SeekEnd}
  THEN [current |-> cur, at |-> cur, n |-> 0, res |-> "unknown_whence"]
  ELSE IF SeekTarget(offs, whence, cur, max) < 0
  THEN [current |-> cur, at |-> cur, n |-> 0, res |-> "negative_offset"]
  ELSE [current |-> SeekTarget(offs, whence, cur, max), at |-> cur,
        n |-> SeekTarget(offs, whence, cur, max), res |-> "nil"]

\* A call on the ramIO leaves the fields of out; a panic ends the process.
RamCall(call, out) ==
  /\ ~panicked
  /\ out.current <= RamMaxCursor
  /\ life' = [life EXCEPT !.current = out.current, !.call = call,
                          !.at = out.at, !.n = out.n, !.res = out.res]
  /\ panicked' = (out.res = "panic")
  /\ UNCHANGED << progVars, hwVars, mgr, disp, waiter, wres, reader,
                  histVars >>

RamWrite(k) == RamCall(<< "Write", k >>, Transfer(k, life.current))
RamRead(k) == RamCall(<< "Read", k >>, Transfer(k, life.current))
RamWriteAt(k, offs) ==
  RamCall(<< "WriteAt", k, offs >>,
          TransferAt(k, offs, life.current, life.max))
RamReadAt(k, offs) ==
  RamCall(<< "ReadAt", k, offs >>,
          TransferAt(k, offs, life.current, life.max))
RamWriteByte ==
  RamCall(<< "WriteByte", 1 >>, ByteTransfer(life.current, life.max))
RamReadByte ==
  RamCall(<< "ReadByte", 1 >>, ByteTransfer(life.current, life.max))
RamSeek(offs, whence) ==
  RamCall(<< "Seek", 0, offs, whence >>,
          SeekResult(offs, whence, life.current, life.max))

RamNext ==
  \/ \E k \in RamLenArgs : RamWrite(k)
  \/ \E k \in RamLenArgs : RamRead(k)
  \/ \E k \in RamLenArgs, offs \in RamOffsArgs : RamWriteAt(k, offs)
  \/ \E k \in RamLenArgs, offs \in RamOffsArgs : RamReadAt(k, offs)
  \/ RamWriteByte
  \/ RamReadByte
  \/ \E offs \in RamOffsArgs, whence \in RamWhenceArgs : RamSeek(offs, whence)

RamSpec == RamInit /\ [][RamNext]_vars

(***************************************************************************)
(* RaceSpec: two tasks call SetHandler and ClearHandler on the Event of the*)
(* open handle of Spec, which stays open.  The Event has no lock, so the   *)
(* statements of the two calls interleave.  mgr is the task that runs,     *)
(* life.other the task that is suspended; TaskSwitch suspends the one and  *)
(* resumes the other.                                                      *)
(***************************************************************************)
RaceInit ==
  /\ pru = 1
  /\ handlerRegistered = [e \in SpecEvents |-> FALSE]
  /\ evChan = [e \in SpecEvents |-> [q |-> << >>, closed |-> FALSE]]
  /\ stopChan = [e \in SpecEvents |-> [gen |-> 0, closed |-> FALSE]]
  /\ sigFile = TRUE
  /\ mapped = TRUE
  /\ ger = 1
  /\ esr = SpecEvents
  /\ srsr = {}
  /\ hien = {SpecHostInt}
  /\ devReady = FALSE
  /\ mgr = [pc |-> "idle", ev |-> 0, ret |-> "idle"]
  /\ disp = [h \in Handlers |-> [pc |-> "none", ev |-> 0]]
  /\ waiter = [w \in Waiters |-> [pc |-> "idle", ev |-> 0]]
  /\ wres = [w \in Waiters |-> NoResult]
  /\ reader = [pc |-> "read", events |-> {}, mask |-> SpecEvents,
               hi |-> SpecHostInt]
  /\ panicked = FALSE
  /\ raised = 0
  /\ nextN = 1
  /\ nextH = 1
  /\ curH = [e \in SpecEvents |-> 0]
  /\ cleared = {}
  /\ stale = {}
  /\ waitGot = {}
  /\ cbLog = << >>
  /\ dropped = {}
  /\ closeDone = FALSE
  /\ hAtClose = 0
  /\ life = [res |-> "none",
             other |-> [pc |-> "idle", ev |-> 0, ret |-> "idle"]]

\* The scheduler suspends the running caller and resumes the other one.
TaskSwitch ==
  /\ ~panicked
  /\ mgr # life.other
  /\ mgr' = life.other
  /\ life' = [life EXCEPT !.other = mgr]
  /\ UNCHANGED << progVars, hwVars, disp, waiter, wres, reader, panicked,
                  histVars >>

\* The task m is inside a SetHandler call that has not started its dispatcher.
InSetHandler(m) == m.pc \in {"sh_set", "sh_make", "sh_go"} \/ m.ret = "sh_set"

\* SetHandler(f) is called by the running task; the model starts no more
\* than MaxHandlers dispatchers.
RaceSetHandlerCall(e) ==
  /\ nextH + (IF InSetHandler(life.other) THEN 1 ELSE 0) <= MaxHandlers
  /\ SetHandlerCall(e)

\* e.stopChan <- c on a stop channel that another ClearHandler call has
\* closed: a send on a closed channel panics.
ClearSendClosed ==
  /\ ~panicked
  /\ mgr.pc = "ch_send"
  /\ stopChan[mgr.ev].closed
  /\ panicked' = TRUE
  /\ UNCHANGED << progVars, hwVars, mgr, disp, waiter, wres, reader, histVars,
                  life >>

RaceNext ==
  \/ TaskSwitch
  \/ \E e \in Configured : RaceSetHandlerCall(e)
  \/ \E e \in Configured : ClearHandlerCall(e)
  \/ ClearCheck
  \/ \E h \in Handlers : ClearSendStop(h)
  \/ ClearSendClosed
  \/ \E h \in Handlers : ClearRecvAck(h)
  \/ ClearCloseStop
  \/ ClearFlag
  \/ SetFlag
  \/ SetMakeStop
  \/ SetGo
  \/ \E e \in Configured : RaiseEvent(e)
  \/ Interrupt
  \/ FanReaderStep
  \/ \E h \in Handlers : DispTake(h)
  \/ \E h \in Handlers : DispReturn(h)

RaceSpec == RaceInit /\ [][RaceNext]_vars

(***************************************************************************)
(* Properties of Event.Wait / WaitTimeout / SetHandler / ClearHandler and  *)
(* of PRU.Close, checked under Spec.                                       *)
(***************************************************************************)
\* C1: a Wait or WaitTimeout call made while a handler is registered on the
\* Event returns the usage error in the step of the call: the caller does
\* not block, nothing is taken from the event queue, and the handler
\* registration and the interrupt controller registers stay as they were.
C1_WaitRejectedWhileHandler ==
  [][\A w \in Waiters, e \in Configured :
       (handlerRegistered[e] /\ (WaitCall(w, e) \/ WaitTimeoutCall(w, e)))
         => /\ wres'[w] = UsageError
            /\ waiter'[w].pc = "idle"
            /\ evChan' = evChan
            /\ waitGot' = waitGot
            /\ handlerRegistered' = handlerRegistered
            /\ stopChan' = stopChan
            /\ hwVars' = hwVars]_vars

\* A call was rejected while the handler was registered and a notification
\* was waiting in the queue.
C1_Witness ==
  \E w \in Waiters, e \in Configured :
    /\ wres[w] = UsageError
    /\ waiter[w].pc = "idle"
    /\ handlerRegistered[e]
    /\ evChan[e].q # << >>

\* C2: Wait / WaitTimeout and a handler exclude each other in both
\* directions: no state has a task blocked in Wait or WaitTimeout on an
\* Event together with a dispatcher receiving from the same event queue.
C2_NoWaiterBesideDispatcher ==
  \A w \in Waiters, h \in Handlers :
    ~ /\ waiter[w].pc \in {"recv", "sel"}
      /\ disp[h].pc = "select"
      /\ disp[h].ev = waiter[w].ev

\* C3: once ClearHandler has returned for a handler, its callback is not
\* running and is never invoked again, whatever arrives on the event later.
C3_NoCallbackAfterClear ==
  [][\A h \in cleared :
       /\ disp[h].pc # "in_f"
       /\ disp'[h].pc # "in_f"
       /\ \A i \in (Len(cbLog) + 1)..Len(cbLog') : cbLog'[i].h # h]_vars

\* A handler that had been invoked was cleared, and a notification arrived
\* on its event afterwards.
C3_Witness ==
  \E h \in cleared :
    /\ \E i \in 1..Len(cbLog) : cbLog[i].h = h
    /\ disp[h].pc = "dead"
    /\ \E n \in Range(evChan[disp[h].ev].q) :
         \A i \in 1..Len(cbLog) : cbLog[i].n < n

\* C4 as stated: the notifications queued when ClearHandler removes the
\* handler are dropped, none of them reaches a later consumer.
C4_QueuedDroppedAtClear ==
  \A s \in stale :
    /\ s.n \notin waitGot
    /\ \A i \in 1..Len(cbLog) : cbLog[i].n # s.n

\* C4: the notifications queued when ClearHandler removes the handler are
\* not delivered to the removed callback, and they are not dropped: each is
\* still queued, in order, or was received by a later Wait / WaitTimeout
\* call or delivered to a handler installed later.
C4_QueuedSurviveClear ==
  /\ \A s \in stale :
       /\ \A i \in 1..Len(cbLog) : cbLog[i].n = s.n => cbLog[i].h # s.h
       /\ \/ \E e \in Configured : s.n \in Range(evChan[e].q)
          \/ s.n \in waitGot
          \/ \E i \in 1..Len(cbLog) : cbLog[i].n = s.n
  /\ \A e \in Configured : \A i, j \in 1..Len(evChan[e].q) :
       i < j => evChan[e].q[i] < evChan[e].q[j]

\* A notification queued when a handler was removed was received by a later
\* Wait / WaitTimeout call, another by a handler installed later.
C4_Witness ==
  /\ \E s \in stale : s.n \in waitGot
  /\ \E s \in stale : \E i \in 1..Len(cbLog) : cbLog[i].n = s.n

\* C5: the callback is invoked once for every notification a dispatcher
\* takes from the queue, the invocations for one Event do not overlap, and
\* they follow the order in which the notifications were enqueued.
C5_OncePerNotificationInOrder ==
  /\ \A i, j \in 1..Len(cbLog) :
       (i < j /\ disp[cbLog[i].h].ev = disp[cbLog[j].h].ev)
         => cbLog[i].n < cbLog[j].n
  /\ \A n \in (1..(nextN - 1)) \ (dropped \cup waitGot) :
       \/ \E e \in Configured : n \in Range(evChan[e].q)
       \/ \E i \in 1..Len(cbLog) : cbLog[i].n = n
  /\ \A h1, h2 \in Handlers :
       (disp[h1].pc = "in_f" /\ disp[h2].pc = "in_f"
          /\ disp[h1].ev = disp[h2].ev) => h1 = h2

\* One handler was invoked for two notifications that had been queued
\* together.
C5_Witness ==
  /\ Len(cbLog) >= 2
  /\ cbLog[1].h = cbLog[2].h
  /\ dropped = {}
  /\ waitGot = {}

\* C6: SetHandler(g) on an Event that has handler f starts g's dispatcher
\* only when f's dispatcher has stopped, so no invocation of f starts once
\* g is installed and no invocation of f overlaps one of g.
C6_ReplaceStopsOldDispatcher ==
  [][/\ \A g \in Handlers :
          (disp[g].pc = "none" /\ disp'[g].pc # "none")
            => \A f \in Handlers \ {g} :
                 disp[f].ev = disp'[g].ev => disp[f].pc = "dead"
     /\ \A e \in Configured, f \in Handlers :
          (disp[f].ev = e /\ curH[e] # f)
            => /\ disp'[f].pc # "in_f"
               /\ \A i \in (Len(cbLog) + 1)..Len(cbLog') : cbLog'[i].h # f]_vars

\* SetHandler(g) was called while f was installed and had been invoked:
\* f's dispatcher has acknowledged the stop and g's is not started yet.
C6_Witness ==
  /\ mgr.ret = "sh_set"
  /\ mgr.pc = "ch_flag"
  /\ \E f \in Handlers :
       /\ disp[f].ev = mgr.ev
       /\ disp[f].pc = "dead"
       /\ \E i \in 1..Len(cbLog) : cbLog[i].h = f

\* C7: a WaitTimeout call that returns either reports "received" and has
\* removed exactly one notification from the event queue, or reports
\* "timed out" and has removed none.
C7_WaitTimeoutRemovesOneOrNone ==
  [][\A w \in Waiters :
       (waiter[w].pc = "sel" /\ waiter'[w].pc = "idle")
         => \/ /\ wres'[w] = "ok"
               /\ evChan[waiter[w].ev].q # << >>
               /\ evChan'[waiter[w].ev].q = Tail(evChan[waiter[w].ev].q)
            \/ /\ wres'[w] = "timeout"
               /\ evChan'[waiter[w].ev].q = evChan[waiter[w].ev].q]_vars

\* C8: a task blocked in Wait when the handle is closed returns: after
\* Close has completed no task is left in Wait unable to ever return.
C8_CloseReleasesWaiters ==
  \A w \in Waiters :
    (closeDone /\ waiter[w].pc = "recv")
      => (~panicked /\ CanRecv(waiter[w].ev))

\* C9: after Close has returned the reader started by Open does nothing
\* more than leave its device read, and every dispatcher started before
\* Close returned has ended.
C9_NoTaskAfterClose ==
  closeDone =>
    /\ reader.pc \in {"read", "exit"}
    /\ \A h \in 1..hAtClose : disp[h].pc = "dead"

(***************************************************************************)
(* Properties of the life cycle, checked under LifeSpec.                   *)
(***************************************************************************)
\* C10: Open called while a handle is open returns the "already open" error
\* without a single register write and leaves the open handle as it is (its
\* configuration, events, devices, reader and the registers); Close unsets
\* the singleton, and Open with the singleton unset is not rejected as
\* already open.
C10_OpenIsSingleton ==
  [][/\ \A pc \in LifeConfigs, drv \in DrvOutcomes, dev \in BOOLEAN :
          LifeOpen(pc, drv, dev)
            => IF pru # 0
               THEN /\ life'.res = "already_open"
                    /\ Len(life'.writes) = 0
                    /\ life'.cfg = life.cfg
                    /\ life'.cmr = life.cmr
                    /\ life'.hmr = life.hmr
                    /\ life'.units = life.units
                    /\ UNCHANGED << progVars, hwVars, reader >>
               ELSE life'.res # "already_open"
     /\ LifeClose => pru' = 0]_vars

\* A handle was opened, closed and opened again, and an Open call on the
\* open handle was then rejected.
C10_Witness ==
  /\ pru # 0
  /\ life.res = "already_open"
  /\ life.opens >= 2

\* C11: an Open call whose configuration maps some event to a channel
\* without a host interrupt entry fails with the configuration error that
\* names such a channel, and the call writes the global enable register
\* neither with 0 nor with 1.
C11_UnmappedChannelRejected ==
  [][\A pc \in LifeConfigs, dev \in BOOLEAN :
       (/\ LifeOpen(pc, "ok", dev)
        /\ pru = 0
        /\ \E se \in DOMAIN pc.ev2chan : pc.ev2chan[se] \notin DOMAIN pc.chan2hint)
         => /\ life'.res = "bad_config"
            /\ life'.err \in { pc.ev2chan[se] : se \in DOMAIN pc.ev2chan }
            /\ life'.err \notin DOMAIN pc.chan2hint
            /\ \A i \in 1..Len(life'.writes) : life'.writes[i].reg # "GER"
            /\ ger' = ger
            /\ pru' = 0]_vars

\* An Open call was rejected for a configuration with one mapped and one
\* unmapped channel, naming the unmapped one.
C11_Witness ==
  /\ life.res = "bad_config"
  /\ life.err = 2
  /\ pru = 0

\* C12: a failed Open call leaves the subsystem closed: the singleton is
\* unset, no reader is left able to read its device, nothing the call
\* opened or mapped is left open, and the call has not written 1 to the
\* global enable register.
C12_FailedOpenLeavesClosed ==
  life.res \in {"io_error", "bad_id", "bad_config", "dev_error"}
    => /\ pru = 0
       /\ reader.pc = "read" => ~sigFile
       /\ life.leak = {}
       /\ \A i \in 1..Len(life.writes) :
            ~(life.writes[i].reg = "GER" /\ life.writes[i].val = 1)

\* C13: after a successful Open the value last written to the system event
\* enable register is exactly the set of the events of the event-to-channel
\* map, whatever the register held before.
C13_EnableEqualsMappedEvents ==
  life.res = "ok"
    => /\ \E i \in 1..Len(life.writes) : life.writes[i].reg = "ESR0"
       /\ \A i \in 1..Len(life.writes) :
            (/\ life.writes[i].reg = "ESR0"
             /\ \A j \in (i + 1)..Len(life.writes) :
                  life.writes[j].reg # "ESR0")
              => life.writes[i].val = DOMAIN life.cfg.ev2chan

\* C14: the interrupt controller writes of a successful Open start with
\* global enable 0 and end with global enable 1, the only two writes of that
\* register, and between them come, in this order: the enable and pending
\* clears and the polarity register, the channel map table, the host
\* interrupt map table, the type register cleared, the event enables, the
\* host interrupt enables.
C14_OpenWritesBracketed ==
  life.res = "ok"
    => LET w == SelectSeq(life.writes, LAMBDA r : r.reg # "CONTROL")
           n == Len(w)
           fixed == << "GER", "ESR0", "ECR0", "SECR0", "SIPR0", "CMR", "HMR",
                       "SITR0", "ESR0" >>
       IN  /\ n >= Len(fixed) + 1
           /\ \A i \in 1..Len(fixed) : w[i].reg = fixed[i]
           /\ \A i \in (Len(fixed) + 1)..(n - 1) : w[i].reg = "HIEISR"
           /\ w[1].val = 0
           /\ w[n].reg = "GER"
           /\ w[n].val = 1
           /\ w[8].val = {}
           /\ Cardinality({ i \in 1..n : w[i].reg = "GER" }) = 2

\* A handle was opened with two units, two events and two channels.
C14_Witness ==
  /\ life.res = "ok"
  /\ Cardinality(DOMAIN life.cfg.chan2hint) = 2
  /\ Cardinality(life.units) = 2
  /\ Cardinality({ i \in 1..Len(life.writes) :
                     life.writes[i].reg = "HIEISR" }) = 2

\* C15: after a successful Open the channel map byte of every mapped event
\* holds the event's channel and the host interrupt map byte of every
\* mapped channel holds the channel's host interrupt, whatever the tables
\* held before.
C15_MapTablesHoldConfig ==
  life.res = "ok"
    => /\ \A se \in DOMAIN life.cfg.ev2chan :
            life.cmr[se] = life.cfg.ev2chan[se]
       /\ \A c \in DOMAIN life.cfg.chan2hint :
            life.hmr[c] = life.cfg.chan2hint[c]

\* C16: a successful Open writes the host interrupt enable register once
\* with h for every host interrupt h some channel is mapped to, and with no
\* other value.
C16_HostEnablesAreTargets ==
  life.res = "ok"
    => LET ws == { i \in 1..Len(life.writes) : life.writes[i].reg = "HIEISR" }
           targets == { life.cfg.chan2hint[c] : c \in DOMAIN life.cfg.chan2hint }
       IN  /\ \A i \in ws : life.writes[i].val \in targets
           /\ \A h \in targets :
                Cardinality({ i \in ws : life.writes[i].val = h }) = 1


\* C17: for each successful read of its device the reader works in a fixed
\* order: it reads the pending events and keeps those of its own host
\* interrupt (SRSR0 and its mask); it writes exactly that set to the clear
\* register, so a pending bit of another host interrupt is never cleared by
\* it; it writes its own host interrupt to HIEISR; and only after that is a
\* notification put on a queue.
C17_ReaderOrder ==
  [][ /\ (reader.pc = "read" /\ reader' # reader) =>
           /\ devReady /\ ~devReady'
           /\ reader'.pc = "pend"
           /\ srsr' = srsr /\ hien' = hien /\ evChan' = evChan
      /\ (reader.pc = "pend" /\ reader' # reader) =>
           /\ reader'.pc = "clr"
           /\ reader'.events = srsr \cap reader.mask
           /\ srsr' = srsr /\ hien' = hien /\ evChan' = evChan
      /\ (reader.pc = "clr" /\ reader' # reader) =>
           /\ reader'.pc = "en"
           /\ reader'.events = reader.events
           /\ srsr \ srsr' = reader.events
           /\ srsr \ srsr' \subseteq reader.mask
           /\ srsr' \subseteq srsr
           /\ hien' = hien /\ evChan' = evChan
      /\ (reader.pc = "en" /\ reader' # reader) =>
           /\ reader'.pc = IF reader.events = {} THEN "read" ELSE "send"
           /\ reader'.events = reader.events
           /\ hien' = hien \cup {reader.hi}
           /\ srsr' = srsr /\ evChan' = evChan
      /\ (reader'.pc = "send" /\ reader.pc # "send") => reader.pc = "en"
      /\ (\E e \in Configured : Len(evChan'[e].q) > Len(evChan[e].q)) =>
           reader.pc = "send"
      /\ nextN' # nextN => reader.pc = "send"
    ]_vars

\* The reader has cleared events 16 and 17 of its host interrupt, has
\* re-enabled it and is about to signal them, while event 18 of host
\* interrupt 1 is still pending.
C17_Witness ==
  /\ reader.pc = "send"
  /\ reader.events = {16, 17}
  /\ 18 \in srsr
  /\ reader.hi \in hien

\* C18: the reader never blocks on delivery.  A queue never holds more than
\* its capacity; a notification for a full queue is dropped and the reader
\* goes on with its remaining events; and whatever the callbacks and the
\* waiting tasks do, a reader that has read its device can always take its
\* next step.
C18_ReaderNeverBlocks ==
  /\ [](\A e \in Configured : Len(evChan[e].q) <= QueueCap)
  /\ [](reader.pc \in {"pend", "clr", "en", "send"} => ENABLED FanReaderStep)
  /\ [][ \A e \in Configured :
           (/\ reader.pc = "send"
            /\ reader' # reader
            /\ e \in reader.events
            /\ e \notin reader'.events
            /\ Len(evChan[e].q) = QueueCap) =>
             /\ evChan' = evChan
             /\ dropped' = dropped \cup {nextN}
             /\ reader'.pc = IF reader'.events = {} THEN "read" ELSE "send"
       ]_vars

\* A notification was dropped on a full queue while a callback was running,
\* and the reader is back at its read.
C18_Witness ==
  /\ dropped # {}
  /\ \E h \in Handlers : disp[h].pc = "in_f"
  /\ \E e \in Configured : Len(evChan[e].q) = QueueCap
  /\ reader.pc = "read"

C20_BlockedWaitReturns ==
  /\ \A w \in Waiters : \A e \in FanMask \ FanHandled :
       (/\ waiter[w].pc = "recv"
        /\ waiter[w].ev = e
        /\ evChan[e].q = << >>
        /\ e \in srsr
        /\ devReady)
         ~> (waiter[w].pc = "idle" /\ wres[w] = "ok")
  /\ [][ /\ \A w \in Waiters :
              (waiter[w].pc = "recv" /\ waiter'[w].pc # "recv") =>
                /\ wres'[w] = "ok"
                /\ evChan[waiter[w].ev].q # << >>
                /\ evChan'[waiter[w].ev].q = Tail(evChan[waiter[w].ev].q)
         /\ \A e \in FanMask :
              Len(evChan'[e].q) > Len(evChan[e].q) =>
                reader.pc = "send" /\ e \in reader.events
         /\ (reader'.pc = "send" /\ reader.pc # "send") =>
              /\ reader.pc = "en"
              /\ reader.hi \in hien'
         /\ (reader'.pc = "en" /\ reader.pc # "en") =>
              /\ reader.pc = "clr"
              /\ srsr' \cap reader'.events = {}
       ]_vars

\* The Wait on event 17 has returned nil after the one event raised; its
\* pending bit is clear and host interrupt 3 is enabled again.
C20_Witness ==
  /\ \E w \in Waiters :
       /\ waiter[w].pc = "idle"
       /\ waiter[w].ev = 17
       /\ wres[w] = "ok"
  /\ raised = 1
  /\ waitGot = {1}
  /\ 17 \notin srsr
  /\ SpecHostInt \in hien
  /\ reader.pc = "read"


(***************************************************************************)
(* Property of Event.ClearHandler without a handler, checked under Spec.   *)
(***************************************************************************)
\* C28: ClearHandler on an Event that has no handler installed does
\* nothing: its test of the flag is never blocked, it returns from there to
\* its caller, and it leaves the handler flag, the stop channel, the
\* notification queue and the dispatchers as they were; so a ClearHandler
\* that follows a ClearHandler changes nothing.
C28_ClearWithoutHandlerIsNoOp ==
  /\ [][ (/\ mgr.pc = "ch_check"
          /\ ~handlerRegistered[mgr.ev]
          /\ mgr' # mgr) =>
           /\ mgr'.pc = mgr.ret
           /\ mgr'.ev = mgr.ev
           /\ UNCHANGED << handlerRegistered, stopChan, evChan, disp >>
       ]_vars
  /\ []((/\ mgr.pc = "ch_check"
         /\ ~handlerRegistered[mgr.ev]
         /\ ~panicked) => ENABLED ClearCheck)

\* ClearHandler has been called again on an Event whose handler an earlier
\* ClearHandler removed.
C28_Witness ==
  /\ mgr.pc = "ch_check"
  /\ mgr.ret = "idle"
  /\ ~handlerRegistered[mgr.ev]
  /\ curH[mgr.ev] # 0
  /\ curH[mgr.ev] \in cleared
  /\ stopChan[mgr.ev].closed
  /\ ~closeDone

(***************************************************************************)
(* Properties of the Config builder, of Open with a built Config and of    *)
(* PRU.ClearEvent, checked under ApiSpec.                                  *)
(***************************************************************************)
\* C21: ClearEvent(e) for an event that has no mapping in the open handle
\* returns an error; it writes no register except, at most, the pending
\* clear of e, and never the host interrupt enable register.  This is so for
\* every event id the caller can pass, those of 64 and more included.
C21_ClearUnconfiguredFails ==
  [][ \A se \in ClearEventArgs :
        (ApiClearEvent(se) /\ se \notin Configured) =>
          /\ ~panicked'
          /\ life'.res = "not_configured"
          /\ \A i \in DOMAIN life'.writes :
               life'.writes[i] = [reg |-> "SECR0", val |-> {se}]
          /\ hien' = hien
    ]_vars

\* C22: ClearEvent(e) for a configured event writes exactly bit e to the
\* pending clear register and then writes to the host interrupt enable
\* register the host interrupt that the channel of e is mapped to in the
\* configuration Open applied.
C22_ClearEventWrites ==
  [][ \A se \in ClearEventArgs :
        (ApiClearEvent(se) /\ se \in Configured) =>
          /\ ~panicked'
          /\ life'.res = "cleared"
          /\ life'.writes =
               << [reg |-> "SECR0", val |-> {se}],
                  [reg |-> "HIEISR",
                   val |-> life.cfg.chan2hint[life.cfg.ev2chan[se]]] >>
          /\ srsr' = srsr \ {se}
          /\ hien' = hien \cup {life.cfg.chan2hint[life.cfg.ev2chan[se]]}
    ]_vars

\* ClearEvent(16) has run on a handle opened with event 16 on channel 2 and
\* channel 2 on host interrupt 3: it cleared bit 16 and re-enabled 3.
C22_Witness ==
  /\ life.res = "cleared"
  /\ 16 \in DOMAIN life.cfg.ev2chan
  /\ life.cfg.ev2chan[16] = 2
  /\ life.cfg.chan2hint[2] = 3
  /\ life.writes = << [reg |-> "SECR0", val |-> {16}],
                      [reg |-> "HIEISR", val |-> 3] >>
  /\ 3 \in hien


\* C24: whatever Go ints the builder calls are given, negative ones
\* included, Event2Channel(s, c) stores channel c mod 10 under the key
\* s mod 64 and Channel2Interrupt(c, h) stores host interrupt h mod 10 under
\* the key c mod 10, replacing an earlier entry of that key and leaving the
\* others: every key of the event map lies in 0..63, every channel and
\* every host interrupt in 0..9, and so Open never indexes a table outside
\* its bounds.
C24_BuilderReducesArguments ==
  /\ [][ /\ \A se \in CfgEventArgs, c \in CfgChannelArgs :
              (/\ life'.built = life.built + 1
               /\ life'.call = << "Event2Channel", se, c >>) =>
                /\ life'.ic.ev2chan =
                     MapPut(life.ic.ev2chan, se % nEvents, c % nChannels)
                /\ life'.ic.chan2hint = life.ic.chan2hint
         /\ \A c \in CfgChannelArgs, h \in CfgHostIntArgs :
              (/\ life'.built = life.built + 1
               /\ life'.call = << "Channel2Interrupt", c, h >>) =>
                /\ life'.ic.chan2hint =
                     MapPut(life.ic.chan2hint, c % nChannels, h % nHostInts)
                /\ life'.ic.ev2chan = life.ic.ev2chan
         /\ ApiOpen => ~panicked'
       ]_vars
  /\ [](/\ DOMAIN life.ic.ev2chan \subseteq 0..(nEvents - 1)
        /\ \A se \in DOMAIN life.ic.ev2chan :
             life.ic.ev2chan[se] \in 0..(nChannels - 1)
        /\ DOMAIN life.ic.chan2hint \subseteq 0..(nChannels - 1)
        /\ \A c \in DOMAIN life.ic.chan2hint :
             life.ic.chan2hint[c] \in 0..(nHostInts - 1))

\* C25: for every integer u, EnableUnit(u) sets bit u mod 2 of the unit
\* mask and leaves the other bit, the event map and the channel map as they
\* were; a second EnableUnit(u) changes nothing.
C25_EnableUnitSetsBit ==
  [][ \A u \in CfgUnitArgs :
        (/\ life'.built = life.built + 1
         /\ life'.call = << "EnableUnit", u >>) =>
          /\ (life'.ic.umask \div (2 ^ (u % nUnits))) % 2 = 1
          /\ (life'.ic.umask \div (2 ^ (1 - (u % nUnits)))) % 2 =
               (life.ic.umask \div (2 ^ (1 - (u % nUnits)))) % 2
          /\ life'.ic.umask \in 0..3
          /\ life'.ic.ev2chan = life.ic.ev2chan
          /\ life'.ic.chan2hint = life.ic.chan2hint
          /\ EnableUnitMask(life'.ic.umask, u) = life'.ic.umask
    ]_vars

\* C29: the configuration is consumed at Open.  A builder call on the
\* Config made after Open has returned changes neither the event mask of
\* the reader nor the host interrupt kept for an event of the handle, and
\* ClearEvent goes on re-enabling the host interrupt of the configuration
\* Open was given, whatever the Config holds by then.
C29_ConfigConsumedAtOpen ==
  /\ [][ /\ life'.built = life.built + 1 =>
              /\ reader' = reader
              /\ life'.hostInt = life.hostInt
              /\ life'.cfg = life.cfg
              /\ UNCHANGED << progVars, hwVars >>
         /\ \A se \in ClearEventArgs :
              (ApiClearEvent(se) /\ se \in Configured /\ life.ic # life.cfg) =>
                /\ Len(life'.writes) = 2
                /\ life'.writes[2] =
                     [reg |-> "HIEISR",
                      val |-> life.cfg.chan2hint[life.cfg.ev2chan[se]]]
       ]_vars
  /\ [](pru # 0 /\ reader.pc # "none" =>
          reader.mask =
            { se \in DOMAIN life.cfg.ev2chan :
                life.cfg.chan2hint[life.cfg.ev2chan[se]] = reader.hi })

\* Open was given event 16 on channel 3 on host interrupt 3; the caller
\* then cleared the Config, and ClearEvent(16) re-enabled host interrupt 3.
C29_Witness ==
  /\ pru # 0
  /\ life.call = << "Clear" >>
  /\ life.ic = NoConfig
  /\ life.res = "cleared"
  /\ life.writes = << [reg |-> "SECR0", val |-> {16}],
                      [reg |-> "HIEISR", val |-> 3] >>
  /\ reader.mask = {16}

\* C30: Open rejects a configuration that maps two different channels to
\* one host interrupt: it returns the error "host interrupt has multiple
\* channels assigned" and has written no register.
C30_SharedHostIntRejected ==
  [][ (/\ ApiOpen
       /\ pru = 0
       /\ ~EventLoopPanics(life.ic)
       /\ ~ChannelLoopPanics(life.ic)
       /\ UnmappedChannels(life.ic) = {}
       /\ \A c \in DOMAIN life.ic.chan2hint :
            life.ic.chan2hint[c] \in 0..(nHostInts - 1)
       /\ \E c1, c2 \in DOMAIN life.ic.chan2hint :
            c1 # c2 /\ life.ic.chan2hint[c1] = life.ic.chan2hint[c2]) =>
        /\ life'.res = "multi_channel"
        /\ life'.writes = << >>
        /\ pru' = 0
        /\ UNCHANGED hwVars
    ]_vars

(***************************************************************************)
(* Properties of Unit.RunAt and Unit.LoadAt, checked under UnitSpec.       *)
(***************************************************************************)
\* C26: RunAt(addr) with an address that is not a multiple of 4, or that is
\* not below the size of the instruction memory (8192), returns an error
\* and writes no register: the CONTROL register of the unit keeps its value
\* and the unit is not disabled.
C26_RunAtRejectsBadAddress ==
  [][ \A u \in 0..(nUnits - 1), addr \in UnitAddrArgs :
        (UnitRunAt(u, addr) /\ (addr % 4 # 0 \/ addr >= 8192)) =>
          /\ life'.res \in {"not_aligned", "out_of_range"}
          /\ life'.writes = << >>
          /\ life'.ctl = life.ctl
    ]_vars

\* RunAt(6) on unit 0 returned the alignment error and left the unit
\* enabled at address 4, as an earlier RunAt(4) set it.
C26_Witness ==
  /\ life.call = << "RunAt", 0, 6 >>
  /\ life.res = "not_aligned"
  /\ life.writes = << >>
  /\ life.ctl[0] = 4 * 2 ^ 14 + 2

\* C27: a load never writes the instruction memory of a running unit.  In
\* LoadAt, and so in LoadAndRunAt, every write to the instruction memory
\* comes after the write that disables the unit, no write before the last
\* instruction memory write enables the unit, and a load that succeeds
\* starts with the disabling write.
C27_LoadDisablesFirst ==
  [][ \A u \in 0..(nUnits - 1), code \in UnitCodeArgs, addr \in UnitAddrArgs :
        (UnitLoadAt(u, code, addr) \/ UnitLoadAndRunAt(u, code, addr)) =>
          LET ws == life'.writes
              Enables(w) == w.reg = "CONTROL" /\ (w.val[2] \div 2) % 2 = 1
          IN  /\ \A i \in DOMAIN ws :
                   ws[i].reg = "IRAM" =>
                     /\ ws[1] = [reg |-> "CONTROL", val |-> << u, 1 >>]
                     /\ ws[i].val[1] = u
                     /\ \A j \in 1..i : ~Enables(ws[j])
              /\ LoadAtCheck(code, addr) = "ok" =>
                   /\ Len(ws) >= 1 + Len(code)
                   /\ ws[1] = [reg |-> "CONTROL", val |-> << u, 1 >>]
                   /\ \A i \in 2..(1 + Len(code)) : ws[i].reg = "IRAM"
    ]_vars

\* LoadAndRunAt of a program of two words at address 4 on unit 1, which
\* was running: disable, two instruction words, disable, enable at 4.
C27_Witness ==
  /\ life.call = << "LoadAndRunAt", 1, << 7, 9 >>, 4 >>
  /\ life.res = "ok"
  /\ Len(life.writes) = 5
  /\ life.writes[1] = [reg |-> "CONTROL", val |-> << 1, 1 >>]
  /\ life.writes[2] = [reg |-> "IRAM", val |-> << 1, 4, 7 >>]
  /\ life.writes[3] = [reg |-> "IRAM", val |-> << 1, 8, 9 >>]
  /\ life.writes[5] = [reg |-> "CONTROL", val |-> << 1, 4 * 2 ^ 14 + 2 >>]

(***************************************************************************)
(* Property of the routing of host interrupts to devices, checked under    *)
(* RouteSpec.                                                              *)
(***************************************************************************)
\* C23: host interrupts 0 and 1 are never delivered to user space, and host
\* interrupt h of 2..9 is device h-2.  Open opens devices of 0..7 only, one
\* for each host interrupt of 2..9 that an event is routed to, and starts
\* the reader of device i with host interrupt i+2 and the events routed to
\* it; that reader re-enables host interrupt i+2; an event routed to host
\* interrupt 0 or 1 opens no device and never has a notification on its
\* queue.
C23_HostIntDeviceRouting ==
  /\ [](pru # 0 =>
          LET hint(se) == life.cfg.chan2hint[life.cfg.ev2chan[se]]
          IN  /\ life.devs \subseteq 0..7
              /\ life.devs = { hint(se) - 2 :
                                 se \in { x \in Configured : hint(x) >= 2 } }
              /\ sigFile = (life.devs # {})
              /\ (life.devs = {}) = (reader.pc = "none")
              /\ reader.pc # "none" =>
                   /\ reader.hi - 2 \in life.devs
                   /\ reader.mask =
                        { se \in Configured : hint(se) = reader.hi }
              /\ \A se \in Configured :
                   hint(se) \in {0, 1} =>
                     /\ evChan[se].q = << >>
                     /\ se \notin reader.mask)
  /\ [][ (reader.pc = "en" /\ reader' # reader) =>
           \E i \in life.devs : hien' = hien \cup {i + 2} ]_vars

\* The handle has device 7 open for host interrupt 9; event 20 has its
\* notification queued and host interrupt 9 is enabled again, while event
\* 17 of host interrupt 1 is pending and has none.
C23_Witness ==
  /\ pru # 0
  /\ life.devs = {7}
  /\ reader.hi = 9
  /\ reader.pc = "read"
  /\ 9 \in hien
  /\ evChan[20].q # << >>
  /\ 17 \in srsr
  /\ evChan[17].q = << >>

(***************************************************************************)
(* Property of the reader tasks of an open handle                          *)
(***************************************************************************)
\* The host interrupts 2..9 that some configured event of pc is routed to.
RoutedHostInts(pc) ==
  { hi \in 2..(nHostInts - 1) :
      \E se \in DOMAIN pc.ev2chan :
        /\ pc.ev2chan[se] \in DOMAIN pc.chan2hint
        /\ pc.chan2hint[pc.ev2chan[se]] = hi }

\* A step of PRU.Event, Wait, WaitTimeout, SetHandler or ClearHandler.
EventCallStep ==
  \/ \E id \in TaskEventArgs : TaskEvent(id)
  \/ \E w \in Waiters : WaiterStep(w)
  \/ HandlerStep

\* C31: after a successful Open the handle has one reader task per host
\* interrupt in 2..9 that a configured event is routed to, however many
\* events share the host interrupt, and no step of PRU.Event, Wait,
\* WaitTimeout, SetHandler or ClearHandler starts or ends a reader task.
C31_OneReaderPerHostInt ==
  /\ [](pru # 0 =>
          /\ Cardinality(life.devs) = Cardinality(RoutedHostInts(life.cfg))
          /\ { signal2HostInt(i) : i \in life.devs } = RoutedHostInts(life.cfg)
          /\ (reader.pc # "none") = (life.devs # {})
          /\ reader.pc # "exit")
  /\ [][EventCallStep => /\ life'.devs = life.devs
                         /\ reader' = reader
                         /\ sigFile' = sigFile]_vars

\* Two events share host interrupt 3 and a handler has been installed and a
\* Wait call has returned on the open handle: one reader.
C31_Witness ==
  /\ pru # 0
  /\ Cardinality(DOMAIN life.cfg.ev2chan) = 2
  /\ Cardinality(life.devs) = 1
  /\ \E e \in Configured : handlerRegistered[e]
  /\ \E w \in Waiters : wres[w] = "ok"
  /\ life.got = "event"

(***************************************************************************)
(* Property of the order of the reader's fan-out                           *)
(***************************************************************************)
\* C32: the reader signals the events it found pending at one device read
\* in descending order of their ids: each step of the fan-out takes the
\* highest event left in the mask, no other, and the notification goes to
\* that event's queue or is dropped.
C32_FanOutDescending ==
  [][reader.pc = "send" /\ reader' # reader =>
       \E fs \in reader.events :
         /\ reader'.events = reader.events \ {fs}
         /\ \A x \in reader'.events : x < fs
         /\ \A e \in Configured \ {fs} : evChan'[e] = evChan[e]
         /\ \/ evChan'[fs].q = Append(evChan[fs].q, nextN)
            \/ /\ evChan'[fs] = evChan[fs]
               /\ dropped' = dropped \cup {nextN}]_vars

\* Events 16 and 17 were pending at the first device read: the first
\* notification went to event 17, and event 16 is left in the mask.
C32_Witness ==
  /\ reader.pc = "send"
  /\ reader.events = {16}
  /\ nextN = 2
  /\ Range(evChan[17].q) = {1}

(***************************************************************************)
(* Property of the size check of Unit.LoadAt                               *)
(***************************************************************************)
\* C33: a LoadAt (or LoadAndRunAt) call whose program ends beyond the
\* instruction memory, 4 * len(code) + addr > 8192 as numbers, returns
\* 'Program too large' and writes nothing, and every word a call writes to
\* the instruction memory lies inside it.
C33_LoadAtBounded ==
  (life.call # << >> /\ life.call[1] \in {"LoadAt", "LoadAndRunAt"}) =>
     /\ 4 * Len(life.call[3]) + life.call[4] > am3xxIRamSize =>
          life.res = "too_large" /\ life.writes = << >>
     /\ \A k \in 1..Len(life.writes) :
          life.writes[k].reg = "IRAM" =>
            /\ life.writes[k].val[2] >= 0
            /\ life.writes[k].val[2] + 4 <= am3xxIRamSize

(***************************************************************************)
(* Properties of PRU.Close beside the reader and the waiting tasks         *)
(***************************************************************************)
\* C34: whatever the interleaving of PRU.Close with a reader that has
\* returned from its device read, no step of the reader sends on a closed
\* event queue or touches the register mapping after it was unmapped: no
\* step of the reader ends the process.
C34_ReaderSafeAcrossClose ==
  [][(ReaderPending \/ ReaderClearEvents \/ ReaderEnable \/ ReaderSend)
       => /\ ~panicked'
          /\ mapped
          /\ reader.pc = "send" => ~evChan[NextEvent(reader.events)].closed]_vars

\* C35: a Wait call returns nil, and a WaitTimeout call returns true, only
\* by taking a notification that the reader queued for the event.
C35_WaitReturnsOnEventOnly ==
  [][\A w \in Waiters :
       (wres'[w] = "ok" /\ (waiter[w].pc \in {"recv", "sel"})
          /\ waiter'[w].pc = "idle")
         => /\ evChan[waiter[w].ev].q # << >>
            /\ Head(evChan[waiter[w].ev].q) \in waitGot'
            /\ evChan'[waiter[w].ev].q = Tail(evChan[waiter[w].ev].q)]_vars

(***************************************************************************)
(* Property of the stop handshake of SetHandler / ClearHandler             *)
(***************************************************************************)
\* The managing task is inside SetHandler or ClearHandler.
InHandlerCall ==
  mgr.pc \in {"ch_check", "ch_send", "ch_wait", "ch_close", "ch_flag",
              "sh_set", "sh_make", "sh_go"}

\* C36: every SetHandler and ClearHandler call returns, the ClearHandler
\* calls made by SetHandler and by Close included, unless the process has
\* ended meanwhile.
C36_HandlerCallsReturn == InHandlerCall ~> (~InHandlerCall \/ panicked)

(***************************************************************************)
(* Property of the dispatchers of an Event under concurrent callers        *)
(***************************************************************************)
\* The dispatcher tasks of event e that are running.
LiveDispatchers(e) ==
  { h \in Handlers : disp[h].ev = e /\ disp[h].pc \in {"select", "in_f", "ack"} }

\* C37: an Event never has two dispatcher tasks, and while no SetHandler or
\* ClearHandler call is in progress its handlerRegistered flag is true
\* exactly when it has a dispatcher task, also when two tasks make the calls.
C37_OneDispatcherPerEvent ==
  \A e \in Configured :
    /\ Cardinality(LiveDispatchers(e)) <= 1
    /\ (mgr.pc = "idle" /\ life.other.pc = "idle") =>
         (handlerRegistered[e] <=> LiveDispatchers(e) # {})

(***************************************************************************)
(* Property of the signal masks of an open handle                          *)
(***************************************************************************)
\* C38: on an open handle every event of a device's signal mask has an
\* Event with an open queue, no event is in the masks of two devices, the
\* masks lie inside the set of configured events, and the events a reader
\* is about to signal all have an Event.
C38_SignalMasksHaveEvents ==
  pru # 0 =>
    /\ \A i \in DOMAIN life.sigMask :
         /\ life.sigMask[i] \subseteq Configured
         /\ life.sigMask[i] \subseteq EvMaskOf(life.cfg)
         /\ \A e \in life.sigMask[i] : ~evChan[e].closed
         /\ (life.sigMask[i] # {}) = (i \in life.devs)
    /\ \A i, j \in DOMAIN life.sigMask :
         i # j => life.sigMask[i] \cap life.sigMask[j] = {}
    /\ reader.pc # "none" =>
         /\ reader.mask = life.sigMask[hostInt2Signal(reader.hi)]
         /\ reader.events \subseteq Configured

\* The handle has two devices and the reader of the first is about to
\* signal an event.
C38_Witness ==
  /\ pru # 0
  /\ Cardinality(life.devs) = 2
  /\ reader.pc = "send"
  /\ reader.events # {}

(***************************************************************************)
(* Property of a second PRU.Close                                          *)
(***************************************************************************)
\* C39: a Close call on a handle that is already closed writes no
\* register, closes and unmaps nothing again and does not end the process.
C39_SecondCloseIsNoOp ==
  [][LifeCloseAgain => /\ ~panicked'
                       /\ life'.writes = << >>
                       /\ UNCHANGED << progVars, hwVars >>]_vars

(***************************************************************************)
(* Property of the cursor of a ramIO                                       *)
(***************************************************************************)
\* C40: whatever calls are made on a ramIO, its cursor stays within
\* 0 .. len(block), no call panics, and a Read, Write, ReadAt, WriteAt,
\* ReadByte or WriteByte that starts at or beyond the end of the block, or
\* is given an offset there, with something to transfer returns io.EOF with
\* a count of 0.
C40_RamCursorInBlock ==
  /\ life.current \in 0..RamLen
  /\ ~panicked
  /\ (/\ life.call # << >>
      /\ life.call[1] # "Seek"
      /\ life.call[2] > 0
      /\ life.at >= RamLen) => (life.res = "EOF" /\ life.n = 0)
  /\ (/\ life.call # << >>
      /\ life.call[1] \in {"ReadAt", "WriteAt"}
      /\ life.call[2] > 0
      /\ life.call[3] >= RamLen) => (life.res = "EOF" /\ life.n = 0)

====
